---- MODULE Spec2Model ----
(***************************************************************************)
(* A state-machine model of the MSI / compound-file decoder                *)
(* (GView::Type::MSI::MSIFile and the plugin entry point Validate).        *)
(*                                                                         *)
(* Conventions.                                                            *)
(*  - TLC integers are 32-bit signed.  A uint32 of the program is kept as  *)
(*    the signed integer with the same bit pattern, so 0xFFFFFFFE is -2    *)
(*    and 0xFFFFFFFF is -1; unsigned comparisons go through U32Ge.         *)
(*  - A Buffer is kept by length and provenance: len is GetLength(), runs  *)
(*    lists the sectors whose bytes were appended, in order, as            *)
(*    <<sector, repetitions>> pairs.  Two buffers read from the same       *)
(*    unmodified source with equal len and runs hold the same bytes.       *)
(*  - An array of uint32 (the header's DIFAT, a sector read as words, the  *)
(*    FAT, the Mini-FAT) is kept sparsely: len is its length and at maps   *)
(*    the 0-based positions that hold something else than 0xFFFFFFFF to    *)
(*    their values.  Bytes of the file the input does not describe are     *)
(*    0xFF.                                                                *)
(*  - Text is a sequence of code units (integers).                         *)
(***************************************************************************)
EXTENDS Integers, Sequences, FiniteSets, TLC

VARIABLES
    file,   \* the input byte source (never modified)
    pc,     \* position of the decoder's single thread
    msi,    \* the fields of the MSIFile object
    gs,     \* the activation record of GetStream
    lf,     \* the locals of the functions open above GetStream
    out,    \* what the running entry point reported to its caller
    fin,    \* arguments of the operation under test (harness specifications)
    fout,   \* its result
    hist    \* results of the GetStream calls completed on the current tables

vars == <<file, pc, msi, gs, lf, out, fin, fout, hist>>

----------------------------------------------------------------------------
(* Program constants *)

\* 0xE11AB1A1E011CFD0, the lowest byte first
OLE_SIGNATURE == <<208, 207, 17, 224, 161, 177, 26, 225>>
ENDOFCHAIN == -2
NOSTREAM == -1
FREESECT == -1
UINT32_MAX == -1
HeaderSize == 512
HeaderDifatCount == 109
DifatSafetyLimit == 10000
UnknownSizeCap == 20000
Slack == 100
DirEntrySize == 128
MinSectorSize == 512
MaxSectorSize == 4096

----------------------------------------------------------------------------
(* Bounds of the model *)

MaxFileSectors == 2
MaxSizeSectors == 1
ShiftBound == 48
MaxNameLen == 3

----------------------------------------------------------------------------
(* Arithmetic helpers *)

Min(a, b) == IF a <= b THEN a ELSE b

RECURSIVE Pow2(_)
Pow2(n) == IF n = 0 THEN 1 ELSE 2 * Pow2(n - 1)

\* a >= n as uint32, for 0 <= n < 2^31
U32Ge(a, n) == a < 0 \/ a >= n

\* a < b as uint32
U32Lt(a, b) == IF (a < 0) = (b < 0) THEN a < b ELSE a >= 0

\* a + b as uint32, for 0 <= b < 2^30
Add32(a, b) ==
    IF a >= Pow2(30) /\ a - Pow2(30) >= Pow2(30) - b
    THEN ((a - Pow2(30)) + b) - Pow2(30) - Pow2(30) - Pow2(30)
    ELSE a + b

RECURSIVE Log2(_)
Log2(n) == IF n <= 1 THEN 0 ELSE 1 + Log2(n \div 2)

\* A uint64 is kept as its eight bytes, the lowest first.
SizeOf(n) == [i \in 1..8 |-> IF i <= 4 THEN (n \div Pow2(8 * (i - 1))) % 256 ELSE 0]
SizeIsZero(s) == \A i \in 1..8 : s[i] = 0
\* s is a count of the model, and its value
SizeFits(s) == s[4] < 128 /\ \A i \in 5..8 : s[i] = 0
SizeLow(s) == s[1] + 256 * s[2] + 65536 * s[3] + Pow2(24) * s[4]
\* s <= n, for a count n of the model
SizeLeq(s, n) == SizeFits(s) /\ SizeLow(s) <= n

\* the uint32 with the little-endian bytes b0 b1 b2 b3
U32(b0, b1, b2, b3) ==
    LET low == b0 + 256 * b1 + 65536 * b2 + Pow2(24) * (b3 % 128)
    IN  IF b3 >= 128 THEN (low - Pow2(30)) - Pow2(30) ELSE low

\* (uint32) (size / sSize) for sSize = 2^k: the low 32 bits of size >> k
Quotient32(size, sSize) ==
    LET k    == Log2(sSize)
        a    == k \div 8
        c    == k % 8
        B(i) == IF i <= 8 THEN size[i] ELSE 0
        Q(i) == B(i + a) \div Pow2(c) + (B(i + a + 1) % Pow2(c)) * Pow2(8 - c)
    IN  U32(Q(1), Q(2), Q(3), Q(4))

\* The values `1 << shift` can take, shift a uint16 promoted to int.  For
\* shift >= 32 the expression is undefined: the shift instructions of the
\* supported targets either use the count modulo 32 or produce 0.  1 << 31 is
\* 0x80000000, which no check of the model tells apart from 2^30.
ShiftLeft1(shift) ==
    IF shift < 31 THEN {Pow2(shift)}
    ELSE IF shift = 31 THEN {Pow2(30)}
    ELSE {Pow2(Min(shift % 32, 30)), 0}

NoEntries == [i \in {} |-> 0]

----------------------------------------------------------------------------
(* The byte source: a file is its size and the bytes `at` the offsets that   *)
(* are not 0xFF.                                                              *)

FileByte(f, o) == IF o \in DOMAIN f.at THEN f.at[o] ELSE 255

FileU16(f, o) == FileByte(f, o) + 256 * FileByte(f, o + 1)
FileU32(f, o) == U32(FileByte(f, o), FileByte(f, o + 1), FileByte(f, o + 2), FileByte(f, o + 3))

\* the bytes of the uint32 w, placed at offset o
PutU32(o, w) ==
    LET u == IF w < 0 THEN (w + Pow2(30)) + Pow2(30) ELSE w
    IN  (o :> u % 256) @@ ((o + 1) :> (u \div 256) % 256) @@ ((o + 2) :> (u \div 65536) % 256)
        @@ ((o + 3) :> (u \div Pow2(24)) + (IF w < 0 THEN 128 ELSE 0))

RECURSIVE PutAll(_, _)
\* the bytes of the words `entries` (position :> word), placed from offset o on
PutAll(o, entries) ==
    IF DOMAIN entries = {} THEN NoEntries
    ELSE LET k == CHOOSE i \in DOMAIN entries : TRUE
         IN  PutU32(o + 4 * k, entries[k]) @@ PutAll(o, [i \in DOMAIN entries \ {k} |-> entries[i]])

\* DataCache::Get / CopyToBuffer with failIfRequestedSizeCanNotBeRead, asked for
\* the n bytes at (uint64) (sect + 1) * sectorSize: the window is returned only
\* when it is not empty and lies inside the file.  (The first two conjuncts keep
\* the product inside the model's integers; they follow from the last one.)
SectorReadable(f, sect, sectorSize, n) ==
    /\ n > 0 /\ sect >= 0
    /\ sectorSize <= f.size /\ sect < f.size
    /\ (sect + 1) * sectorSize + n <= f.size

----------------------------------------------------------------------------
(* Arrays of uint32 *)

VecEmpty == [len |-> 0, at |-> NoEntries]
VecAt(v, i) == IF i \in DOMAIN v.at THEN v.at[i] ELSE FREESECT
\* push_back of every entry of b, in order
VecCat(a, b) ==
    [len |-> a.len + b.len,
     at  |-> [j \in DOMAIN a.at \cup {i + a.len : i \in DOMAIN b.at} |->
                 IF j \in DOMAIN a.at THEN a.at[j] ELSE b.at[j - a.len]]]
\* the array holding the given values at the given positions
VecOf(n, entries) == [len |-> n, at |-> [i \in DOMAIN entries |-> entries[i]]]
\* the array that starts with the sequence s
VecFrom(n, s) == [len |-> n, at |-> [i \in 0..(Len(s) - 1) |-> s[i + 1]]]

\* the n uint32 that start at offset base of the file
WordsAt(f, base, n) ==
    LET here == {o \in DOMAIN f.at : base <= o /\ o < base + 4 * n}
    IN  [len |-> n,
         at  |-> [k \in {(o - base) \div 4 : o \in here} |-> FileU32(f, base + 4 * k)]]

\* The 32-bit words of a sector that can be read, as
\* reinterpret_cast<const uint32*> reads them.
SectorWords(f, sect, sectorSize) == WordsAt(f, (sect + 1) * sectorSize, sectorSize \div 4)

----------------------------------------------------------------------------
(* Buffer *)

\* A buffer is its length and where its bytes were copied from: runs of
\* <<sector, repetitions>>, each sector `unit` bytes of the file or, for a
\* buffer read in mini mode, of the mini-stream.
NewBuffer(unit, mini) == [len |-> 0, runs |-> <<>>, unit |-> unit, mini |-> mini]
EmptyBuffer == NewBuffer(0, FALSE)

\* Buffer::Add of the n bytes of sector sect
BufferAdd(b, sect, n) ==
    LET k == Len(b.runs)
    IN  IF n = 0 THEN b
        ELSE [b EXCEPT !.len = @ + n,
                       !.runs = IF k > 0 /\ b.runs[k][1] = sect
                                THEN [b.runs EXCEPT ![k] = <<sect, @[2] + 1>>]
                                ELSE Append(b.runs, <<sect, 1>>)]

RECURSIVE RunSector(_, _)
\* the sector the j-th unit of a buffer was copied from
RunSector(runs, j) ==
    IF j < Head(runs)[2] THEN Head(runs)[1] ELSE RunSector(Tail(runs), j - Head(runs)[2])

\* the byte at offset o < b.len of a buffer read from the file
RegularByte(f, b, o) == FileByte(f, (RunSector(b.runs, o \div b.unit) + 1) * b.unit + (o % b.unit))

\* the byte at offset o < b.len of a buffer; ms is the mini-stream
BufferByte(f, ms, b, o) ==
    IF b.mini THEN RegularByte(f, ms, RunSector(b.runs, o \div b.unit) * b.unit + (o % b.unit))
    ELSE RegularByte(f, b, o)

BufferU16(f, ms, b, o) == BufferByte(f, ms, b, o) + 256 * BufferByte(f, ms, b, o + 1)
BufferU32(f, ms, b, o) ==
    U32(BufferByte(f, ms, b, o), BufferByte(f, ms, b, o + 1),
        BufferByte(f, ms, b, o + 2), BufferByte(f, ms, b, o + 3))

\* Buffer::Resize to a smaller size
BufferResize(b, size) == [b EXCEPT !.len = size]

----------------------------------------------------------------------------
(* MSIFile::GetStream *)

NoCall == [startSector |-> NOSTREAM, size |-> SizeOf(0), isMini |-> FALSE, sSize |-> 0,
           sect |-> NOSTREAM, limit |-> 0, maxSectors |-> 0,
           result |-> EmptyBuffer, appended |-> 0, ret |-> "none"]

\* (uint32) (size / sSize), evaluated when size > 0: a division by zero traps
\* or, where the divide instruction does not trap, yields 0
Quotients(size, sSize) ==
    IF SizeIsZero(size) THEN {[trap |-> FALSE, q |-> 0]}
    ELSE IF sSize = 0 THEN {[trap |-> TRUE, q |-> 0], [trap |-> FALSE, q |-> 0]}
    ELSE {[trap |-> FALSE, q |-> Quotient32(size, sSize)]}

\* line 476
MaxSectorsOf(size, q) == IF ~SizeIsZero(size) THEN Add32(q, Slack) ELSE UnknownSizeCap

TableOf(m, isMini) == IF isMini THEN m.miniFAT ELSE m.FAT
SectorSizeOf(m, isMini) == IF isMini THEN m.miniSectorSize ELSE m.sectorSize

GetStreamFrameMutant(m, startSector, size, isMini, q, ret) ==
    [startSector |-> startSector, size |-> size, isMini |-> isMini,
     sSize |-> SectorSizeOf(m, isMini), sect |-> startSector, limit |-> 0,
     maxSectors |-> MaxSectorsOf(size, q), result |-> gs.result,
     appended |-> 0, ret |-> ret]
\* lines 466-476: the locals before the loop
GetStreamFrame(m, startSector, size, isMini, q, ret) ==
    [startSector |-> startSector, size |-> size, isMini |-> isMini,
     sSize |-> SectorSizeOf(m, isMini), sect |-> startSector, limit |-> 0,
     maxSectors |-> MaxSectorsOf(size, q),
     result |-> NewBuffer(SectorSizeOf(m, isMini), isMini),
     appended |-> 0, ret |-> ret]

\* The effect of a call: the frame is set up, or the division traps.
GetStreamCall(startSector, size, isMini, ret) ==
    \E d \in Quotients(size, SectorSizeOf(msi, isMini)) :
        IF d.trap
        THEN /\ pc' = "crashed"
             /\ out' = [out EXCEPT !.crash = "division by zero"]
             /\ gs' = gs
        ELSE /\ pc' = "GetStream"
             /\ gs' = GetStreamFrame(msi, startSector, size, isMini, d.q, ret)
             /\ out' = out

LoopEndsMutant(sect, tableLen) == sect = ENDOFCHAIN \/ sect = NOSTREAM \/ U32Lt(tableLen, sect)
\* line 478 and the first half of line 479
LoopEnds(sect, tableLen) == sect = ENDOFCHAIN \/ sect = NOSTREAM \/ U32Ge(sect, tableLen)

\* the ++ of limit++ (line 479) and of safetyLimit++ (line 384)
PostIncrement(counter) == counter + 1

\* limit++ > maxSectors, both uint32
BudgetSpent(limit, maxSectors) == U32Lt(maxSectors, limit)

\* lines 482-492: whether this sector's bytes are appended
ChunkAvailable(f, m, isMini, sect, sSize) ==
    IF isMini
    THEN sSize <= m.miniStream.len /\ sect * sSize + sSize <= m.miniStream.len
    ELSE SectorReadable(f, sect, m.sectorSize, sSize)

\* line 497
Enough(size, len) == ~SizeIsZero(size) /\ SizeLeq(size, len)

TruncateMutant(b, size) == b
\* line 498, reached when size <= b.len
Truncate(b, size) == BufferResize(b, SizeLow(size))

\* One evaluation of the loop condition and, when it holds, of the loop body.
\* The result is the frame afterwards and whether the loop goes on.
GetStreamIter(f, m, g) ==
    LET table == TableOf(m, g.isMini)
    IN  IF LoopEnds(g.sect, table.len)
        THEN [frame |-> g, more |-> FALSE]
        ELSE IF BudgetSpent(g.limit, g.maxSectors)
        THEN [frame |-> [g EXCEPT !.limit = PostIncrement(@)], more |-> FALSE]
        ELSE LET avail == ChunkAvailable(f, m, g.isMini, g.sect, g.sSize)
                 got   == IF avail THEN BufferAdd(g.result, g.sect, g.sSize) ELSE g.result
                 full  == Enough(g.size, got.len)
             IN  [frame |-> [g EXCEPT !.limit = PostIncrement(@),
                                      !.sect = VecAt(table, g.sect),
                                      !.appended = IF avail THEN @ + g.sSize ELSE @,
                                      !.result = IF full THEN Truncate(got, g.size) ELSE got],
                  more |-> ~full]

CallKey(g) == <<g.startSector, g.size, g.isMini>>

RecordCall(h, g) == IF CallKey(g) \in DOMAIN h THEN h ELSE (CallKey(g) :> g.result) @@ h

\* The loop at frame g never ends: an iteration changes nothing but limit, and
\* no uint32 is greater than maxSectors = 0xFFFFFFFF, so the same iteration is
\* repeated with every value of limit in turn.
Endless(f, m, g) ==
    LET r == GetStreamIter(f, m, g)
    IN  /\ r.more
        /\ r.frame = [g EXCEPT !.limit = r.frame.limit]
        /\ g.maxSectors = UINT32_MAX

GetStream_Loop ==
    /\ pc = "GetStream"
    /\ IF Endless(file, msi, gs)
       THEN /\ pc' = "hung"
            /\ out' = [out EXCEPT !.crash = "endless loop"]
            /\ UNCHANGED <<gs, hist>>
       ELSE LET r == GetStreamIter(file, msi, gs)
            IN  /\ gs' = r.frame
                /\ pc' = IF r.more THEN "GetStream" ELSE gs.ret
                /\ hist' = IF r.more THEN hist ELSE RecordCall(hist, r.frame)
                /\ out' = out
    /\ UNCHANGED <<file, msi, lf, fin, fout>>

----------------------------------------------------------------------------
(* MSIFile::LoadFAT *)

IsSentinel(v) == v = ENDOFCHAIN \/ v = NOSTREAM

\* lines 373-377: the inline entries up to the first sentinel
HeaderDifatList(difat) ==
    LET stops == {i \in 0..(HeaderDifatCount - 1) : IsSentinel(VecAt(difat, i))}
        n == IF stops = {} THEN HeaderDifatCount
             ELSE CHOOSE i \in stops : \A j \in stops : i <= j
    IN  [i \in 1..n |-> difat.at[i - 1]]

RECURSIVE NonSentinelMutant(_, _, _)
NonSentinelMutant(data, k, n) ==
    IF k >= n \/ IsSentinel(VecAt(data, k)) THEN <<>>
    ELSE <<VecAt(data, k)>> \o NonSentinelMutant(data, k + 1, n)
\* lines 391-394: the entries data[0 .. n-1] that are no sentinel, in order
\* (a word the array does not list is 0xFFFFFFFF, a sentinel)
RECURSIVE NonSentinel(_, _, _)
NonSentinel(data, k, n) ==
    LET rest == {i \in DOMAIN data.at : k <= i /\ i < n}
        j == CHOOSE i \in rest : \A h \in rest : i <= h
    IN  IF rest = {} THEN <<>>
        ELSE (IF IsSentinel(VecAt(data, j)) THEN <<>> ELSE <<VecAt(data, j)>>)
             \o NonSentinel(data, j + 1, n)

\* safetyLimit++ < 10000
DifatBudgetLeft(safetyLimit) == safetyLimit < DifatSafetyLimit

\* lines 362-382
LoadFAT_Begin ==
    /\ pc = "LoadFAT"
    /\ msi' = [msi EXCEPT !.FAT = VecEmpty]
    /\ lf' = [lf EXCEPT !.difatList = HeaderDifatList(msi.header.difat),
                        !.currentDifatSector = msi.header.firstDifatSector,
                        !.safetyLimit = 0]
    /\ pc' = "LoadFAT_difat"
    /\ hist' = <<>>
    /\ UNCHANGED <<file, gs, out, fin, fout>>

\* lines 384-396: one evaluation of the loop condition and, when it holds, of
\* the body.  entriesPerDifat = sectorSize / 4 - 1 wraps to 0xFFFFFFFF when
\* sectorSize < 4, and the inner loop then reads past the sector it was given.
LoadFAT_DifatLoop ==
    /\ pc = "LoadFAT_difat"
    /\ LET cur == lf.currentDifatSector
           ss  == msi.sectorSize
           epd == (ss \div 4) - 1
       IN  IF IsSentinel(cur)
           THEN pc' = "LoadFAT_sectors" /\ lf' = lf /\ out' = out
           ELSE IF ~DifatBudgetLeft(lf.safetyLimit)
           THEN /\ pc' = "LoadFAT_sectors"
                /\ lf' = [lf EXCEPT !.safetyLimit = PostIncrement(@)]
                /\ out' = out
           ELSE IF ~SectorReadable(file, cur, ss, ss)
           THEN /\ pc' = "LoadFAT_sectors"
                /\ lf' = [lf EXCEPT !.safetyLimit = PostIncrement(@)]
                /\ out' = out
           ELSE IF epd < 0
           THEN /\ pc' = "crashed"
                /\ lf' = [lf EXCEPT !.safetyLimit = PostIncrement(@)]
                /\ out' = [out EXCEPT !.crash = "read past the DIFAT sector"]
           ELSE LET data == SectorWords(file, cur, ss)
                IN  /\ pc' = "LoadFAT_difat"
                    /\ lf' = [lf EXCEPT !.safetyLimit = PostIncrement(@),
                                        !.difatList = @ \o NonSentinel(data, 0, epd),
                                        !.currentDifatSector = VecAt(data, epd)]
                    /\ out' = out
    /\ UNCHANGED <<file, msi, gs, fin, fout, hist>>

\* lines 399-408: the entries of every listed sector that can be read
RECURSIVE FatOf(_, _, _)
FatOf(f, list, ss) ==
    IF list = <<>> THEN VecEmpty
    ELSE VecCat(IF SectorReadable(f, Head(list), ss, ss)
                THEN SectorWords(f, Head(list), ss) ELSE VecEmpty,
                FatOf(f, Tail(list), ss))

LoadFAT_Sectors ==
    /\ pc = "LoadFAT_sectors"
    /\ msi' = [msi EXCEPT !.FAT = FatOf(file, lf.difatList, msi.sectorSize)]
    /\ pc' = lf.ret
    /\ UNCHANGED <<file, gs, lf, out, fin, fout, hist>>

----------------------------------------------------------------------------
(* The object as its constructor leaves it *)

\* OLEHeader as Copy<OLEHeader>(0, h) fills it (the fields the decoder uses)
ReadHeader(f) ==
    [signature |-> [i \in 1..8 |-> FileByte(f, i - 1)],
     sectorShift |-> FileU16(f, 30), miniSectorShift |-> FileU16(f, 32),
     firstDirSector |-> FileU32(f, 48), miniStreamCutoffSize |-> FileU32(f, 56),
     firstMiniFatSector |-> FileU32(f, 60), firstDifatSector |-> FileU32(f, 68),
     difat |-> WordsAt(f, 76, HeaderDifatCount)]

\* the bytes of a header with the given fields and inline DIFAT entries
HeaderBytes(shift, miniShift, difat, firstDifat, firstDir, firstMiniFat, cutoff) ==
    [o \in 0..7 |-> OLE_SIGNATURE[o + 1]]
    @@ (30 :> shift % 256) @@ (31 :> shift \div 256)
    @@ (32 :> miniShift % 256) @@ (33 :> miniShift \div 256)
    @@ PutU32(48, firstDir) @@ PutU32(56, cutoff) @@ PutU32(60, firstMiniFat)
    @@ PutU32(68, firstDifat) @@ PutAll(76, [k \in 0..(Len(difat) - 1) |-> difat[k + 1]])

HeaderOf(shift, miniShift, difat, firstDifat, firstDir, firstMiniFat, cutoff) ==
    ReadHeader([size |-> HeaderSize,
                at |-> HeaderBytes(shift, miniShift, difat, firstDifat, firstDir, firstMiniFat, cutoff)])

\* OLEHeader header{}
ZeroHeader == ReadHeader([size |-> HeaderSize, at |-> [o \in 0..(HeaderSize - 1) |-> 0]])

\* DirEntry{}; a child in `children` is kept as its id and its own children,
\* the rest of it being a copy of the entry with that id
DirEntryNew ==
    [id |-> 0, objectType |-> 0, leftSiblingId |-> 0, rightSiblingId |-> 0, childId |-> 0,
     startingSectorLocation |-> 0, streamSize |-> SizeOf(0), name |-> <<>>,
     decodedName |-> <<>>, children |-> <<>>]

\* Metadata{}: text is a sequence of chars, a time_t its eight bytes
MetadataNew ==
    [title |-> <<>>, subject |-> <<>>, author |-> <<>>, keywords |-> <<>>, comments |-> <<>>,
     revisionNumber |-> <<>>, creatingApp |-> <<>>,
     createTime |-> SizeOf(0), lastSaveTime |-> SizeOf(0), lastPrintedTime |-> SizeOf(0),
     pageCount |-> 0, wordCount |-> 0, security |-> 0, totalSize |-> 0]

\* a DirEntry* into the tree of rootDir: nullptr, or the positions that lead
\* from rootDir to the entry, child after child (none for &rootDir)
NullFolder == [null |-> TRUE, path |-> <<>>]
FolderPointer(path) == [null |-> FALSE, path |-> path]

\* tableDefs maps a table name to its definition
MsiNew ==
    [header |-> ZeroHeader, sectorSize |-> 0, miniSectorSize |-> 0,
     FAT |-> VecEmpty, miniFAT |-> VecEmpty, miniStream |-> EmptyBuffer,
     rootDir |-> DirEntryNew, linearDirList |-> <<>>,
     stringPool |-> <<>>, tables |-> <<>>, msiFiles |-> <<>>, tableDefs |-> <<>>,
     stringBytes |-> 2, msiMeta |-> MetadataNew,
     currentViewMode |-> "Root", currentIterFolder |-> NullFolder, currentIterIndex |-> 0]

\* The locals of the functions that are open above GetStream
LfNew ==
    [difatList |-> <<>>, currentDifatSector |-> NOSTREAM, safetyLimit |-> 0, ret |-> "none",
     bufPool |-> EmptyBuffer, called |-> FALSE, dirStructure |-> <<>>, compToDir |-> <<>>]

OutNew == [update |-> "none", crash |-> "none", calls |-> 0]

----------------------------------------------------------------------------
(* Validate (msi.cpp) *)

\* The values Validate can return for a buffer: one, unless 1 << sectorShift
\* is undefined.
Validate(buf) ==
    IF buf.size < HeaderSize THEN {FALSE}
    ELSE IF ReadHeader(buf).signature # OLE_SIGNATURE THEN {FALSE}
    ELSE {~(sectorSize < MinSectorSize \/ sectorSize > MaxSectorSize) :
             sectorSize \in ShiftLeft1(ReadHeader(buf).sectorShift)}

----------------------------------------------------------------------------
(* MSIFile::Update *)

\* lines 335-344: Copy<OLEHeader>(0, h) fails when the file is shorter than
\* the header
Update_Begin ==
    /\ pc = "Update"
    /\ LET h == ReadHeader(file)
       IN  IF file.size < HeaderSize \/ h.signature # OLE_SIGNATURE
           THEN /\ pc' = "done"
                /\ out' = [out EXCEPT !.update = FALSE]
                /\ UNCHANGED <<msi, lf>>
           ELSE /\ \E ss \in ShiftLeft1(h.sectorShift), ms \in ShiftLeft1(h.miniSectorShift) :
                      msi' = [msi EXCEPT !.header = h, !.sectorSize = ss, !.miniSectorSize = ms,
                                         !.msiMeta.totalSize = file.size]
                /\ pc' = "LoadFAT"
                /\ lf' = [lf EXCEPT !.ret = "LoadDirectory"]
                /\ out' = out
    /\ UNCHANGED <<file, gs, fin, fout, hist>>

----------------------------------------------------------------------------
(* MSIFile::MsiDecompressName; text is a sequence of UTF-16 code units *)

\* u"0123456789ABCDEFGHIJKLMNOPQRSTUVWXYZabcdefghijklmnopqrstuvwxyz._"
charset ==
    [i \in 0..63 |-> IF i < 10 THEN 48 + i
                     ELSE IF i < 36 THEN 65 + (i - 10)
                     ELSE IF i < 62 THEN 97 + (i - 36)
                     ELSE IF i = 62 THEN 46 ELSE 95]

DecodeUnitMutant(val) ==
    IF val >= 14336 /\ val <= 18431
    THEN <<charset[((val - 14336) \div 64) % 64], charset[(val - 14336) % 64]>>
    ELSE IF val >= 18432 /\ val <= 18495 THEN <<charset[val - 18432]>>
    ELSE IF val = 18496 THEN <<33>>
    ELSE <<val>>
\* lines 649-660: what one code unit appends to the result
DecodeUnit(val) ==
    IF val >= 14336 /\ val <= 18431
    THEN <<charset[(val - 14336) % 64], charset[((val - 14336) \div 64) % 64]>>
    ELSE IF val >= 18432 /\ val <= 18495 THEN <<charset[val - 18432]>>
    ELSE IF val = 18496 THEN <<33>>
    ELSE <<val>>

RECURSIVE MsiDecompressName(_)
MsiDecompressName(encoded) ==
    IF encoded = <<>> THEN <<>>
    ELSE DecodeUnit(Head(encoded)) \o MsiDecompressName(Tail(encoded))

----------------------------------------------------------------------------
(* MSIFile::LoadDirectory and MSIFile::BuildTree *)

\* lines 426-439: entry i of the directory stream
ReadEntry(f, ms, buf, i) ==
    LET o          == DirEntrySize * i
        nameLength == BufferU16(f, ms, buf, o + 64)
        clamped    == Min(nameLength \div 2, 32)
        charCount  == IF clamped > 0 THEN clamped - 1 ELSE 0
        name       == [k \in 1..charCount |-> BufferU16(f, ms, buf, o + 2 * (k - 1))]
    IN  [id |-> i,
         objectType |-> BufferByte(f, ms, buf, o + 66),
         leftSiblingId |-> BufferU32(f, ms, buf, o + 68),
         rightSiblingId |-> BufferU32(f, ms, buf, o + 72),
         childId |-> BufferU32(f, ms, buf, o + 76),
         startingSectorLocation |-> BufferU32(f, ms, buf, o + 116),
         streamSize |-> [j \in 1..8 |-> BufferByte(f, ms, buf, o + 119 + j)],
         name |-> name,
         decodedName |-> MsiDecompressName(name),
         children |-> <<>>]

LoadDirectory_Begin ==
    /\ pc = "LoadDirectory"
    /\ GetStreamCall(msi.header.firstDirSector, SizeOf(0), FALSE, "LoadDirectory_parse")
    /\ UNCHANGED <<file, msi, lf, fin, fout, hist>>

\* lines 415-446
LoadDirectory_Parse ==
    /\ pc = "LoadDirectory_parse"
    /\ LET dirStream == gs.result
           count     == dirStream.len \div DirEntrySize
           list      == [i \in 1..count |-> ReadEntry(file, msi.miniStream, dirStream, i - 1)]
       IN  IF dirStream.len = 0
           THEN /\ pc' = "done"
                /\ out' = [out EXCEPT !.update = FALSE]
                /\ msi' = msi
           ELSE /\ pc' = "LoadMiniFAT"
                /\ out' = out
                /\ msi' = [msi EXCEPT !.linearDirList = list,
                                      !.rootDir = IF count > 0 THEN list[1] ELSE @]
    /\ UNCHANGED <<file, gs, lf, fin, fout, hist>>

RECURSIVE traverseMutant(_, _, _)
traverseMutant(list, nodeId, path) ==
    IF nodeId = NOSTREAM \/ U32Ge(nodeId, Len(list)) THEN [endless |-> FALSE, ids |-> <<>>]
    ELSE IF nodeId \in path THEN [endless |-> TRUE, ids |-> <<>>]
    ELSE LET node == list[nodeId + 1]
             l    == traverseMutant(list, node.leftSiblingId, path \cup {nodeId})
             r    == traverseMutant(list, node.rightSiblingId, path \cup {nodeId})
         IN  [endless |-> l.endless \/ r.endless, ids |-> <<nodeId>> \o l.ids \o r.ids]
\* The traverse lambda (lines 511-518): the ids it pushes, in order.  `path`
\* holds the nodes whose call is still open; a node met again on its own
\* path is entered again with the same pointers, and so without end.
RECURSIVE traverse(_, _, _)
traverse(list, nodeId, path) ==
    IF nodeId = NOSTREAM \/ U32Ge(nodeId, Len(list)) THEN [endless |-> FALSE, ids |-> <<>>]
    ELSE IF nodeId \in path THEN [endless |-> TRUE, ids |-> <<>>]
    ELSE LET node == list[nodeId + 1]
             l    == traverse(list, node.leftSiblingId, path \cup {nodeId})
             r    == traverse(list, node.rightSiblingId, path \cup {nodeId})
         IN  [endless |-> l.endless \/ r.endless, ids |-> l.ids \o <<nodeId>> \o r.ids]

\* BuildTree (lines 505-533) for a parent with the given childId: the
\* children it gives the parent.  `open` holds the entries whose BuildTree
\* call is still open; one that turns up again below itself is expanded
\* again with the same childId, and so without end.
RECURSIVE BuildTree(_, _, _)
BuildTree(list, childId, open) ==
    LET t == traverse(list, childId, {})
        Node(id) ==
            IF list[id + 1].objectType \in {1, 5}
            THEN IF id \in open THEN [endless |-> TRUE, children |-> <<>>]
                 ELSE BuildTree(list, list[id + 1].childId, open \cup {id})
            ELSE [endless |-> FALSE, children |-> <<>>]
    IN  IF childId = NOSTREAM THEN [endless |-> FALSE, children |-> <<>>]
        ELSE IF t.endless THEN [endless |-> TRUE, children |-> <<>>]
        ELSE [endless  |-> \E k \in 1..Len(t.ids) : Node(t.ids[k]).endless,
              children |-> [k \in 1..Len(t.ids) |->
                              [id |-> t.ids[k], children |-> Node(t.ids[k]).children]]]

\* BuildTree(this->rootDir), line 348
BuildTree_Root ==
    /\ pc = "BuildTree"
    /\ LET r == BuildTree(msi.linearDirList, msi.rootDir.childId, {0})
       IN  IF r.endless
           THEN /\ pc' = "crashed"
                /\ out' = [out EXCEPT !.crash = "endless recursion in BuildTree"]
                /\ msi' = msi
           ELSE /\ pc' = "ParseSummaryInformation"
                /\ out' = out
                /\ msi' = [msi EXCEPT !.rootDir.children = r.children]
    /\ UNCHANGED <<file, gs, lf, fin, fout, hist>>

----------------------------------------------------------------------------
(* MSIFile::LoadMiniFAT *)

\* the uint32 a buffer read from the file holds, as (const uint32*) reads them
RECURSIVE RunWords(_, _, _)
RunWords(f, runs, unit) ==
    IF runs = <<>> THEN VecEmpty
    ELSE LET r    == Head(runs)
             rest == IF r[2] > 1 THEN <<(<<r[1], r[2] - 1>>)>> \o Tail(runs) ELSE Tail(runs)
         IN  VecCat(WordsAt(f, (r[1] + 1) * unit, unit \div 4), RunWords(f, rest, unit))

BufferWords(f, b) ==
    LET all == RunWords(f, b.runs, b.unit)
        n   == b.len \div 4
    IN  [len |-> n, at |-> [i \in {j \in DOMAIN all.at : j < n} |-> all.at[i]]]

LoadMiniFAT_BeginMutant ==
    /\ pc = "LoadMiniFAT"
    /\ pc' = "BuildTree"
    /\ UNCHANGED <<file, msi, gs, lf, out, fin, fout, hist>>
\* line 451
LoadMiniFAT_Begin ==
    /\ pc = "LoadMiniFAT"
    /\ GetStreamCall(msi.header.firstMiniFatSector, SizeOf(0), FALSE, "LoadMiniFAT_fat")
    /\ UNCHANGED <<file, msi, lf, fin, fout, hist>>

\* lines 452-461: the entries are pushed onto miniFAT as it is
LoadMiniFAT_Fat ==
    /\ pc = "LoadMiniFAT_fat"
    /\ msi' = [msi EXCEPT !.miniFAT = IF gs.result.len > 0
                                      THEN VecCat(@, BufferWords(file, gs.result)) ELSE @]
    /\ IF ~SizeIsZero(msi.rootDir.streamSize)
       THEN GetStreamCall(msi.rootDir.startingSectorLocation, msi.rootDir.streamSize, FALSE,
                          "LoadMiniFAT_stream")
       ELSE pc' = "BuildTree" /\ UNCHANGED <<gs, out>>
    /\ hist' = <<>>
    /\ UNCHANGED <<file, lf, fin, fout>>

\* line 461: the assignment to miniStream
LoadMiniFAT_Stream ==
    /\ pc = "LoadMiniFAT_stream"
    /\ msi' = [msi EXCEPT !.miniStream = gs.result]
    /\ pc' = "BuildTree"
    /\ hist' = <<>>
    /\ UNCHANGED <<file, gs, lf, out, fin, fout>>

----------------------------------------------------------------------------
(* MSIFile::ParseSummaryInformation and ParseLpstr *)

\* u"SummaryInformation"
SummaryInformation ==
    <<83, 117, 109, 109, 97, 114, 121, 73, 110, 102, 111, 114, 109, 97, 116, 105, 111, 110>>

\* s.find(t) != npos
Contains(s, t) == \E i \in 0..(Len(s) - Len(t)) : SubSeq(s, i + 1, i + Len(t)) = t

StripNulMutant(s) == s
\* while (!s.empty() && s.back() == '\0') s.pop_back()
RECURSIVE StripNul(_)
StripNul(s) ==
    IF s # <<>> /\ s[Len(s)] = 0 THEN StripNul(SubSeq(s, 1, Len(s) - 1)) ELSE s

\* the n bytes of a buffer from offset o on
BufferText(f, ms, b, o, n) == [k \in 1..n |-> BufferByte(f, ms, b, o + k - 1)]

ParseLpstrMutant(f, ms, b, o, avail) ==
    IF avail < 8 THEN <<>>
    ELSE LET stringLen == BufferU32(f, ms, b, o + 4)
         IN  IF stringLen = 0 THEN <<>>
             ELSE StripNul(BufferText(f, ms, b, o + 8, stringLen))
\* ParseLpstr(ptr, avail), ptr at offset o of the buffer
ParseLpstr(f, ms, b, o, avail) ==
    IF avail < 8 THEN <<>>
    ELSE LET stringLen == BufferU32(f, ms, b, o + 4)
         IN  IF stringLen = 0 THEN <<>>
             ELSE StripNul(BufferText(f, ms, b, o + 8,
                                      IF U32Lt(avail - 8, stringLen) THEN avail - 8 ELSE stringLen))

\* 11644473600, the seconds from 1601 to 1970
DIFF_SEC == <<0, 145, 16, 182, 2, 0, 0, 0>>

\* uint64 arithmetic on eight bytes: s / d for a small d, a < b, a - b
RECURSIVE RemAt(_, _, _)
RemAt(s, i, d) == IF i > 8 THEN 0 ELSE (RemAt(s, i + 1, d) * 256 + s[i]) % d
DivSize(s, d) == [i \in 1..8 |-> (RemAt(s, i + 1, d) * 256 + s[i]) \div d]
SizeLess(a, b) == \E i \in 1..8 : a[i] < b[i] /\ \A j \in (i + 1)..8 : a[j] = b[j]
RECURSIVE BorrowAt(_, _, _)
BorrowAt(a, b, i) == IF i = 1 THEN 0 ELSE IF a[i - 1] - b[i - 1] - BorrowAt(a, b, i - 1) < 0 THEN 1 ELSE 0
SubSize(a, b) == [i \in 1..8 |-> (256 + a[i] - b[i] - BorrowAt(a, b, i)) % 256]

\* filetime_to_time_t: ft / 10000000 is taken as (ft / 10000) / 1000
filetime_to_time_t(ft) ==
    LET seconds == DivSize(DivSize(ft, 10000), 1000)
    IN  IF SizeLess(DIFF_SEC, seconds) THEN SubSize(seconds, DIFF_SEC) ELSE SizeOf(0)

\* lines 578-636: what property i of the section at sectionOffset does to meta
Property(f, ms, b, meta, sectionOffset, i) ==
    LET sectionAvail == b.len - sectionOffset
        plEntry      == sectionOffset + 8 + i * 8
        propID       == BufferU32(f, ms, b, plEntry)
        propOffset   == BufferU32(f, ms, b, plEntry + 4)
        value        == sectionOffset + propOffset
        valueAvail   == sectionAvail - propOffset
        type         == BufferU16(f, ms, b, value)
        text         == ParseLpstr(f, ms, b, value, valueAvail)
        time         == filetime_to_time_t([k \in 1..8 |-> BufferByte(f, ms, b, value + 3 + k)])
        v            == IF valueAvail - 4 < 4 THEN 0 ELSE BufferU32(f, ms, b, value + 4)
    IN  IF U32Ge(propOffset, sectionAvail) THEN meta
        ELSE IF valueAvail < 4 THEN meta
        ELSE IF type = 30
        THEN IF propID = 2 THEN [meta EXCEPT !.title = text]
             ELSE IF propID = 3 THEN [meta EXCEPT !.subject = text]
             ELSE IF propID = 4 THEN [meta EXCEPT !.author = text]
             ELSE IF propID = 5 THEN [meta EXCEPT !.keywords = text]
             ELSE IF propID = 6 THEN [meta EXCEPT !.comments = text]
             ELSE IF propID = 9 THEN [meta EXCEPT !.revisionNumber = text]
             ELSE IF propID = 18 THEN [meta EXCEPT !.creatingApp = text]
             ELSE meta
        ELSE IF type = 64
        THEN IF valueAvail - 4 < 8 THEN meta
             ELSE IF propID = 12 THEN [meta EXCEPT !.createTime = time]
             ELSE IF propID = 13 THEN [meta EXCEPT !.lastSaveTime = time]
             ELSE [meta EXCEPT !.lastPrintedTime = time]
        ELSE IF type = 3
        THEN IF propID = 14 THEN [meta EXCEPT !.pageCount = v]
             ELSE IF propID = 15 THEN [meta EXCEPT !.wordCount = v]
             ELSE IF propID = 19 THEN [meta EXCEPT !.security = v]
             ELSE meta
        ELSE meta

RECURSIVE Properties(_, _, _, _, _, _, _)
Properties(f, ms, b, meta, sectionOffset, i, propertyCount) ==
    IF i >= propertyCount THEN meta
    ELSE Properties(f, ms, b, Property(f, ms, b, meta, sectionOffset, i),
                    sectionOffset, i + 1, propertyCount)

\* lines 546-638 for the stream b of the first entry that matches
SummaryOf(f, ms, b, meta) ==
    LET sized         == [meta EXCEPT !.totalSize = b.len]
        sectionOffset == BufferU32(f, ms, b, 44)
        sectionAvail  == b.len - sectionOffset
        propertyCount == BufferU32(f, ms, b, sectionOffset + 4)
        room          == (sectionAvail - 8) \div 8
    IN  IF b.len < 48 THEN meta
        ELSE IF U32Ge(sectionOffset, b.len) THEN sized
        ELSE IF sectionAvail < 8 THEN sized
        ELSE Properties(f, ms, b, sized, sectionOffset, 0,
                        IF U32Lt(room, propertyCount) THEN room ELSE propertyCount)

\* the ids of the entries of the list with the decoded name
Named(list, decodedName) == {i \in 1..Len(list) : list[i].decodedName = decodedName}
First(ids) == CHOOSE i \in ids : \A j \in ids : i <= j
Last(ids) == CHOOSE i \in ids : \A j \in ids : i >= j

\* streamSize < header.miniStreamCutoffSize, the cutoff promoted to uint64
IsMiniSize(size, cutoff) ==
    LET c == PutU32(1, cutoff)
    IN  SizeLess(size, [i \in 1..8 |-> IF i <= 4 THEN c[i] ELSE 0])

\* GetStream(entry->data.startingSectorLocation, entry->data.streamSize, isMini)
EntryStream(entry, ret) ==
    GetStreamCall(entry.startingSectorLocation, entry.streamSize,
                  IsMiniSize(entry.streamSize, msi.header.miniStreamCutoffSize), ret)

\* lines 540-545
ParseSummaryInformation_Begin ==
    /\ pc = "ParseSummaryInformation"
    /\ LET found == {i \in 1..Len(msi.linearDirList) :
                        Contains(msi.linearDirList[i].name, SummaryInformation)}
       IN  IF found = {} THEN pc' = "LoadStringPool" /\ UNCHANGED <<gs, out>>
           ELSE EntryStream(msi.linearDirList[First(found)], "ParseSummaryInformation_parse")
    /\ UNCHANGED <<file, msi, lf, fin, fout, hist>>

ParseSummaryInformation_Parse ==
    /\ pc = "ParseSummaryInformation_parse"
    /\ msi' = [msi EXCEPT !.msiMeta = SummaryOf(file, msi.miniStream, gs.result, @)]
    /\ pc' = "LoadStringPool"
    /\ UNCHANGED <<file, gs, lf, out, fin, fout, hist>>

----------------------------------------------------------------------------
(* MSIFile::LoadStringPool (MSIDatabase.cpp) *)

\* u"!_StringPool", u"!_StringData", "<Error>"
StringPoolName == <<33, 95, 83, 116, 114, 105, 110, 103, 80, 111, 111, 108>>
StringDataName == <<33, 95, 83, 116, 114, 105, 110, 103, 68, 97, 116, 97>>
ErrorText == <<60, 69, 114, 114, 111, 114, 62>>

\* lines 31-36: the last entry with each name, 0 for nullptr
PoolEntries(list) ==
    LET pools == Named(list, StringPoolName)
        datas == Named(list, StringDataName)
    IN  [entryPool |-> IF pools = {} THEN 0 ELSE Last(pools),
         entryData |-> IF datas = {} THEN 0 ELSE Last(datas)]

AfterStringPoolMutant(loaded) ==
    IF loaded THEN [pc |-> "LoadDatabase", update |-> "none"]
    ELSE [pc |-> "done", update |-> FALSE]
\* Update, lines 352-357: where it goes on after LoadStringPool returned
\* `loaded`, and what it has returned when it ends there
AfterStringPool(loaded) ==
    IF loaded THEN [pc |-> "LoadDatabase", update |-> "none"]
    ELSE [pc |-> "done", update |-> TRUE]

\* poolPtr[k]
PoolWord(f, ms, bufPool, k) == BufferU16(f, ms, bufPool, 2 * k)

\* lines 58-82: whether the words poolPtr[2 i + which] of the entries
\* i .. count - 1 add up, from calcSize on, to exactly dataSize
RECURSIVE LengthsValid(_, _, _, _, _, _, _, _)
LengthsValid(f, ms, bufPool, which, i, count, calcSize, dataSize) ==
    IF i >= count THEN calcSize = dataSize
    ELSE LET len == PoolWord(f, ms, bufPool, 2 * i + which)
         IN  IF calcSize + len > dataSize THEN FALSE
             ELSE LengthsValid(f, ms, bufPool, which, i + 1, count, calcSize + len, dataSize)

UseHighWordMutant(highValid, lowValid) == IF lowValid THEN 0 ELSE 1
\* lines 84-86: 1 for the high word, 0 for the low word
UseHighWord(highValid, lowValid) == IF lowValid /\ ~highValid THEN 0 ELSE 1

\* lines 91-109: the strings pushed from entry i on
RECURSIVE PoolStrings(_, _, _, _, _, _, _, _)
PoolStrings(f, ms, bufPool, bufData, which, i, count, currentOffset) ==
    IF i >= count THEN <<>>
    ELSE IF i = 0
    THEN <<(<<>>)>> \o PoolStrings(f, ms, bufPool, bufData, which, 1, count, currentOffset)
    ELSE LET len == PoolWord(f, ms, bufPool, 2 * i + which)
         IN  IF currentOffset + len > bufData.len THEN <<ErrorText>>
             ELSE <<StripNul(BufferText(f, ms, bufData, currentOffset, len))>>
                  \o PoolStrings(f, ms, bufPool, bufData, which, i + 1, count, currentOffset + len)

\* lines 51-109
StringPoolOf(f, ms, bufPool, bufData) ==
    LET count     == bufPool.len \div 4
        highValid == LengthsValid(f, ms, bufPool, 1, 1, count, 0, bufData.len)
        lowValid  == LengthsValid(f, ms, bufPool, 0, 1, count, 0, bufData.len)
    IN  PoolStrings(f, ms, bufPool, bufData, UseHighWord(highValid, lowValid), 0, count, 0)

\* Update as it goes on after LoadStringPool returned `loaded`
StringPoolReturns(loaded) ==
    /\ pc' = AfterStringPool(loaded).pc
    /\ out' = [out EXCEPT !.update = AfterStringPool(loaded).update]

\* lines 28-42
LoadStringPool_Begin ==
    /\ pc = "LoadStringPool"
    /\ LET e == PoolEntries(msi.linearDirList)
       IN  IF e.entryPool = 0 \/ e.entryData = 0
           THEN StringPoolReturns(FALSE) /\ gs' = gs
           ELSE EntryStream(msi.linearDirList[e.entryPool], "LoadStringPool_data")
    /\ UNCHANGED <<file, msi, lf, fin, fout, hist>>

\* lines 44-45
LoadStringPool_Data ==
    /\ pc = "LoadStringPool_data"
    /\ lf' = [lf EXCEPT !.bufPool = gs.result]
    /\ EntryStream(msi.linearDirList[PoolEntries(msi.linearDirList).entryData],
                   "LoadStringPool_parse")
    /\ UNCHANGED <<file, msi, fin, fout, hist>>

\* lines 48-110
LoadStringPool_Parse ==
    /\ pc = "LoadStringPool_parse"
    /\ IF lf.bufPool.len < 4
       THEN StringPoolReturns(FALSE) /\ msi' = msi
       ELSE LET pool == StringPoolOf(file, msi.miniStream, lf.bufPool, gs.result)
            IN  /\ msi' = [msi EXCEPT !.stringPool = pool]
                /\ StringPoolReturns(Len(pool) > 0)
    /\ UNCHANGED <<file, gs, lf, fin, fout, hist>>

----------------------------------------------------------------------------
(* MSIFile::LoadDatabase: the schema (MSIDatabase.cpp) *)

MSICOL_INTEGER == 32768
MSICOL_INT2 == 1024

\* u"!_Columns"
ColumnsName == <<33, 95, 67, 111, 108, 117, 109, 110, 115>>

GetStringMutant(pool, index) ==
    IF U32Ge(index, Len(pool)) THEN <<60, 69, 114, 114, 111, 114, 62>> ELSE pool[index + 1]
\* GetString(index)
GetString(pool, index) == IF U32Ge(index, Len(pool)) THEN <<>> ELSE pool[index + 1]

\* a string index of stringBytes bytes at offset o (lines 175-178)
StringIndex(f, ms, b, o, stringBytes) ==
    IF stringBytes = 2 THEN BufferU16(f, ms, b, o)
    ELSE BufferU16(f, ms, b, o) + 65536 * BufferByte(f, ms, b, o + 2)

StringBytesOfMutant(sz, poolSize) ==
    IF SizeIsZero(sz) THEN 2
    ELSE IF RemAt(sz, 1, 10) = 0 THEN 3
    ELSE IF RemAt(sz, 1, 8) = 0 THEN 2
    ELSE IF poolSize > 65536 THEN 3 ELSE 2
\* lines 129-137: the width of a string index; sz = 0 stands for no entry
\* or an empty stream
StringBytesOf(sz, poolSize) ==
    IF SizeIsZero(sz) THEN 2
    ELSE IF RemAt(sz, 1, 10) = 0 /\ RemAt(sz, 1, 8) # 0 THEN 3
    ELSE IF RemAt(sz, 1, 8) = 0 /\ RemAt(sz, 1, 10) # 0 THEN 2
    ELSE IF poolSize > 65536 THEN 3 ELSE 2

\* MsiColumnInfo{} and MsiTableDef{}
ColumnNew == [name |-> <<>>, type |-> 0, size |-> 0]
TableDefNew == [name |-> <<>>, columns |-> <<>>, rowSize |-> 0]

\* lines 200-215: the internal flags of a type code read from disk
FinalType(diskType) ==
    IF ((diskType % 32768) \div 2048) % 2 = 1 THEN 0
    ELSE MSICOL_INTEGER + (IF diskType % 16 = 2 THEN MSICOL_INT2 ELSE 0)

\* lines 226-232: column colNum of table tableName becomes col
SetColumn(defs, tableName, colNum, col) ==
    LET def   == IF tableName \in DOMAIN defs THEN defs[tableName] ELSE TableDefNew
        n     == IF Len(def.columns) < colNum THEN colNum ELSE Len(def.columns)
        sized == [k \in 1..n |-> IF k <= Len(def.columns) THEN def.columns[k] ELSE ColumnNew]
    IN  (tableName :> [def EXCEPT !.name = tableName,
                                  !.columns = [sized EXCEPT ![colNum] = col]]) @@ defs

\* lines 166-233: the definitions after the rows i .. numRows - 1
RECURSIVE Schema(_, _, _, _, _, _, _, _)
Schema(f, ms, b, pool, stringBytes, defs, i, numRows) ==
    LET startNum     == numRows * stringBytes
        startName    == startNum + numRows * 2
        startType    == startName + numRows * stringBytes
        tableIdx     == StringIndex(f, ms, b, i * stringBytes, stringBytes)
        colNum       == BufferU16(f, ms, b, startNum + i * 2) % 32768
        nameIdx      == StringIndex(f, ms, b, startName + i * stringBytes, stringBytes)
        diskType     == BufferU16(f, ms, b, startType + i * 2)
        tableNameStr == GetString(pool, tableIdx)
        col          == [name |-> GetString(pool, nameIdx), type |-> FinalType(diskType), size |-> 0]
    IN  IF i >= numRows \/ i * stringBytes + stringBytes > b.len THEN defs
        ELSE Schema(f, ms, b, pool, stringBytes,
                    IF tableNameStr = <<>> \/ tableNameStr = ErrorText \/ colNum = 0 \/ colNum > 255
                    THEN defs ELSE SetColumn(defs, tableNameStr, colNum, col),
                    i + 1, numRows)

RECURSIVE Sum(_)
Sum(s) == IF s = <<>> THEN 0 ELSE Head(s) + Sum(Tail(s))

ColumnSizeMutant(type, stringBytes) ==
    IF type \div MSICOL_INTEGER = 1 THEN 4 ELSE stringBytes
\* lines 240-250
ColumnSize(type, stringBytes) ==
    IF type \div MSICOL_INTEGER = 1
    THEN IF (type \div MSICOL_INT2) % 2 = 1 THEN 2 ELSE 4
    ELSE stringBytes

\* lines 237-255
Widths(defs, stringBytes) ==
    [name \in DOMAIN defs |->
        LET cols == [k \in 1..Len(defs[name].columns) |->
                        [defs[name].columns[k] EXCEPT
                            !.size = ColumnSize(defs[name].columns[k].type, stringBytes)]]
        IN  [defs[name] EXCEPT !.columns = cols,
                               !.rowSize = Sum([k \in 1..Len(cols) |-> cols[k].size])]]

ColRowSizeMutant(stringBytes) == 8
\* line 148: the bytes of one schema record
ColRowSize(stringBytes) == (stringBytes * 2) + 4

\* lines 141-255 for the _Columns stream b (empty when there is none)
TableDefsOf(f, ms, b, pool, stringBytes) ==
    Widths(IF b.len > 0
           THEN Schema(f, ms, b, pool, stringBytes, <<>>, 0, b.len \div ColRowSize(stringBytes))
           ELSE <<>>, stringBytes)

\* "File", "Directory", "Component"
FileTable == <<70, 105, 108, 101>>
DirectoryTable == <<68, 105, 114, 101, 99, 116, 111, 114, 121>>
ComponentTable == <<67, 111, 109, 112, 111, 110, 101, 110, 116>>

\* u"!" + std::u16string(name.begin(), name.end()), char being signed
TableStreamName(name) ==
    <<33>> \o [k \in 1..Len(name) |-> IF name[k] >= 128 THEN 65280 + name[k] ELSE name[k]]

\* the first entry with the decoded name, 0 for nullptr
FindEntry(list, decodedName) ==
    IF Named(list, decodedName) = {} THEN 0 ELSE First(Named(list, decodedName))

\* lines 115-144
LoadDatabase_Begin ==
    /\ pc = "LoadDatabase"
    /\ LET columnsEntry == FindEntry(msi.linearDirList, ColumnsName)
           sz == IF columnsEntry = 0 THEN SizeOf(0) ELSE msi.linearDirList[columnsEntry].streamSize
       IN  IF msi.stringPool = <<>>
           THEN pc' = "LoadTables" /\ UNCHANGED <<msi, gs, lf, out>>
           ELSE /\ msi' = [msi EXCEPT !.stringBytes = StringBytesOf(sz, Len(msi.stringPool)),
                                      !.tableDefs = <<>>]
                /\ lf' = [lf EXCEPT !.called = columnsEntry # 0]
                /\ IF columnsEntry # 0
                   THEN EntryStream(msi.linearDirList[columnsEntry], "LoadDatabase_schema")
                   ELSE pc' = "LoadDatabase_schema" /\ UNCHANGED <<gs, out>>
    /\ UNCHANGED <<file, fin, fout, hist>>

----------------------------------------------------------------------------
(* MSIFile::LoadDatabase: the resolvePath lambda; text is a sequence of chars *)

Backslash == 92

\* p.back() == '\\': reading back() of an empty string is undefined, and the
\* byte found there may or may not be a backslash
EndsWithBackslash(p) == IF p = <<>> THEN {TRUE, FALSE} ELSE {p[Len(p)] = Backslash}

\* The outcomes of resolvePath(key) (lines 288-299) with the given
\* dirStructure (key :> <<parent, name>>) and pathCache: the value returned
\* and the cache afterwards.  `open` holds the keys whose call is still
\* open; a key met again on its own path is in no cache yet and is resolved
\* again through the same parent, and so without end.
RECURSIVE resolvePath(_, _, _, _)
resolvePath(dirStructure, key, pathCache, open) ==
    IF key \in DOMAIN pathCache THEN {[endless |-> FALSE, value |-> pathCache[key], cache |-> pathCache]}
    ELSE IF key \notin DOMAIN dirStructure THEN {[endless |-> FALSE, value |-> key, cache |-> pathCache]}
    ELSE LET info == dirStructure[key]
         IN  IF info[1] = <<>> \/ info[1] = key
             THEN {[endless |-> FALSE, value |-> info[2], cache |-> (key :> info[2]) @@ pathCache]}
             ELSE IF key \in open THEN {[endless |-> TRUE, value |-> <<>>, cache |-> pathCache]}
             ELSE UNION {IF r.endless THEN {r}
                         ELSE {LET v == IF e THEN r.value \o info[2]
                                        ELSE r.value \o <<Backslash>> \o info[2]
                               IN  [endless |-> FALSE, value |-> v, cache |-> (key :> v) @@ r.cache] :
                                  e \in EndsWithBackslash(r.value)} :
                           r \in resolvePath(dirStructure, info[1], pathCache, open \cup {key})}

----------------------------------------------------------------------------
(* MSIFile::ReadTableData, the file join of LoadDatabase, MSIFile::LoadTables *)

\* "<Corrupt>", "<Orphaned>"
CorruptText == <<60, 67, 111, 114, 114, 117, 112, 116, 62>>
OrphanedText == <<60, 79, 114, 112, 104, 97, 110, 101, 100, 62>>

\* std::to_string of a value below 2^31
RECURSIVE to_string(_)
to_string(val) ==
    IF val < 10 THEN <<48 + val>> ELSE to_string(val \div 10) \o <<48 + (val % 10)>>

\* the text a const char* gives: the chars before the first NUL
c_str(text) ==
    LET nuls == {k \in 1..Len(text) : text[k] = 0}
    IN  IF nuls = {} THEN text ELSE SubSeq(text, 1, First(nuls) - 1)

\* lines 393-417: the cell of width col.size at valOffset
Cell(f, ms, b, pool, stringBytes, col, valOffset) ==
    IF valOffset + col.size > b.len THEN CorruptText
    ELSE IF col.type \div MSICOL_INTEGER = 1
    THEN IF col.size = 2 THEN to_string(BufferU16(f, ms, b, valOffset) % 32768)
         ELSE LET val == BufferU32(f, ms, b, valOffset)
              IN  to_string(IF val < 0 THEN (val + Pow2(30)) + Pow2(30) ELSE val)
    ELSE c_str(GetString(pool, StringIndex(f, ms, b, valOffset, stringBytes)))

RowsMutant(f, ms, b, pool, stringBytes, def) ==
    LET numRows == b.len \div def.rowSize
        colStartOffsets ==
            [c \in 1..Len(def.columns) |-> Sum([k \in 1..(c - 1) |-> def.columns[k].size])]
    IN  IF def.rowSize = 0 THEN <<>>
        ELSE [i \in 1..numRows |->
                [c \in 1..Len(def.columns) |->
                    Cell(f, ms, b, pool, stringBytes, def.columns[c],
                         colStartOffsets[c] + (i - 1) * def.rowSize)]]
\* lines 373-421: the rows of the table stream b
Rows(f, ms, b, pool, stringBytes, def) ==
    LET numRows == b.len \div def.rowSize
        colStartOffsets ==
            [c \in 1..Len(def.columns) |->
                Sum([k \in 1..(c - 1) |-> def.columns[k].size * numRows])]
    IN  IF def.rowSize = 0 THEN <<>>
        ELSE [i \in 1..numRows |->
                [c \in 1..Len(def.columns) |->
                    Cell(f, ms, b, pool, stringBytes, def.columns[c],
                         colStartOffsets[c] + (i - 1) * def.columns[c].size)]]

\* ReadTableData up to its call of GetStream (lines 350-368), made with the
\* caller's locals next; without a definition or a stream it returns at once
ReadTableData_Call(tableDefs, tableName, next, ret) ==
    LET tableEntry == FindEntry(msi.linearDirList, TableStreamName(tableName))
    IN  IF tableName \notin DOMAIN tableDefs \/ tableEntry = 0
        THEN /\ pc' = ret
             /\ lf' = [next EXCEPT !.called = FALSE]
             /\ UNCHANGED <<gs, out>>
        ELSE /\ lf' = [next EXCEPT !.called = TRUE]
             /\ EntryStream(msi.linearDirList[tableEntry], ret)

\* what ReadTableData returns (lines 369-421) once GetStream has returned
ReadTableData_Rows(tableName) ==
    IF lf.called
    THEN Rows(file, msi.miniStream, gs.result, msi.stringPool, msi.stringBytes,
              msi.tableDefs[tableName])
    ELSE <<>>

\* ExtractLongFileName
ExtractLongFileName(rawName) ==
    LET bars == {k \in 1..Len(rawName) : rawName[k] = 124}
    IN  IF bars # {} /\ First(bars) < Len(rawName)
        THEN SubSeq(rawName, First(bars) + 1, Len(rawName)) ELSE rawName

\* lines 264-272 and 277-284: the map the rows leave, a later row replacing
\* an earlier one with the same key
RECURSIVE MapOf(_)
MapOf(pairs) ==
    IF pairs = <<>> THEN <<>>
    ELSE LET p    == pairs[Len(pairs)]
             rest == MapOf(SubSeq(pairs, 1, Len(pairs) - 1))
         IN  IF p = <<>> THEN rest ELSE (p[1] :> p[2]) @@ rest

\* dirStructure when paired, compToDir when not
RowMap(rows, paired) ==
    MapOf([i \in 1..Len(rows) |->
              IF Len(rows[i]) < 3 \/ rows[i][1] = <<>> THEN <<>>
              ELSE <<rows[i][1], IF paired THEN <<rows[i][2], ExtractLongFileName(rows[i][3])>>
                                 ELSE rows[i][3]>>])

\* lines 258-263, the schema being parsed
LoadDatabase_Schema ==
    /\ pc = "LoadDatabase_schema"
    /\ LET defs == TableDefsOf(file, msi.miniStream,
                               IF lf.called THEN gs.result ELSE EmptyBuffer,
                               msi.stringPool, msi.stringBytes)
       IN  /\ msi' = [msi EXCEPT !.tableDefs = defs,
                                 !.msiFiles = IF FileTable \in DOMAIN defs THEN <<>> ELSE @]
           /\ IF FileTable \in DOMAIN defs
              THEN ReadTableData_Call(defs, DirectoryTable, lf, "LoadDatabase_dirRows")
              ELSE pc' = "LoadTables" /\ UNCHANGED <<gs, lf, out>>
    /\ UNCHANGED <<file, fin, fout, hist>>

\* lines 264-276
LoadDatabase_DirRows ==
    /\ pc = "LoadDatabase_dirRows"
    /\ ReadTableData_Call(msi.tableDefs, ComponentTable,
          [lf EXCEPT !.dirStructure =
              RowMap(ReadTableData_Rows(DirectoryTable), TRUE)],
          "LoadDatabase_compRows")
    /\ UNCHANGED <<file, msi, fin, fout, hist>>

\* lines 277-302
LoadDatabase_CompRows ==
    /\ pc = "LoadDatabase_compRows"
    /\ ReadTableData_Call(msi.tableDefs, FileTable,
          [lf EXCEPT !.compToDir =
              RowMap(ReadTableData_Rows(ComponentTable), FALSE)],
          "LoadDatabase_fileRows")
    /\ UNCHANGED <<file, msi, fin, fout, hist>>

\* std::stoul of a cell, narrowed to uint32; 0 stands for the exception it
\* throws when no digit follows the blanks and the sign.  The value is that
\* of up to nine digits, which is what the cells of the model hold.
stoul(text) ==
    LET blanks == {k \in 1..Len(text) : \A j \in 1..k : text[j] = 32 \/ text[j] \in 9..13}
        start  == Cardinality(blanks) + 1
        signed == start <= Len(text) /\ text[start] \in {43, 45}
        from   == IF signed THEN start + 1 ELSE start
        digits == {k \in from..Len(text) : \A j \in from..k : text[j] \in 48..57}
        upto   == from + Min(Cardinality(digits), 9) - 1
        value  == Sum([k \in 1..(upto - from + 1) |->
                         (text[from + k - 1] - 48) * (10 ^ (upto - from + 1 - k))])
    IN  IF signed /\ text[start] = 45 THEN 0 - value ELSE value

\* lines 304-322: the file entries the rows from row i on add to `files`.
\* Each outcome is a file list, or the endless recursion of resolvePath.
RECURSIVE Join(_, _, _, _, _, _)
Join(rows, i, dirStructure, compToDir, pathCache, files) ==
    IF i > Len(rows) THEN {[endless |-> FALSE, files |-> files]}
    ELSE IF Len(rows[i]) < 5 THEN Join(rows, i + 1, dirStructure, compToDir, pathCache, files)
    ELSE LET row   == rows[i]
             entry == [Name |-> ExtractLongFileName(row[3]), Directory |-> OrphanedText,
                       Component |-> row[2], Size |-> stoul(row[4]), Version |-> row[5]]
         IN  IF entry.Component \in DOMAIN compToDir
             THEN UNION {IF r.endless THEN {[endless |-> TRUE, files |-> files]}
                         ELSE Join(rows, i + 1, dirStructure, compToDir, r.cache,
                                   Append(files, [entry EXCEPT !.Directory = r.value])) :
                           r \in resolvePath(dirStructure, compToDir[entry.Component], pathCache, {})}
             ELSE Join(rows, i + 1, dirStructure, compToDir, pathCache, Append(files, entry))

\* lines 302-324
LoadDatabase_FileRows ==
    /\ pc = "LoadDatabase_fileRows"
    /\ \E r \in Join(ReadTableData_Rows(FileTable), 1, lf.dirStructure, lf.compToDir, <<>>, <<>>) :
          IF r.endless
          THEN /\ pc' = "crashed"
               /\ out' = [out EXCEPT !.crash = "endless recursion in resolvePath"]
               /\ msi' = msi
          ELSE /\ pc' = "LoadTables"
               /\ out' = out
               /\ msi' = [msi EXCEPT !.msiFiles = r.files]
    /\ UNCHANGED <<file, gs, lf, fin, fout, hist>>

\* a < b for std::string: the first differing char decides, as unsigned
TextLess(a, b) ==
    \E k \in 1..Len(b) :
        /\ \A j \in 1..(k - 1) : j <= Len(a) /\ a[j] = b[j]
        /\ k > Len(a) \/ a[k] < b[k]

\* the keys of a std::map in the order a range-for visits them
RECURSIVE Sorted(_)
Sorted(keys) ==
    IF keys = {} THEN <<>>
    ELSE LET least == CHOOSE a \in keys : \A b \in keys \ {a} : TextLess(a, b)
         IN  <<least>> \o Sorted(keys \ {least})

\* lines 331-343: the rowCount of a table
RowCount(list, def) ==
    LET stream == FindEntry(list, TableStreamName(def.name))
        q      == DivSize(list[stream].streamSize, def.rowSize)
    IN  IF stream # 0 /\ def.rowSize > 0 THEN U32(q[1], q[2], q[3], q[4]) ELSE 0

\* MSIFile::LoadTables and the return of Update (line 357)
LoadTables ==
    /\ pc = "LoadTables"
    /\ LET names == Sorted(DOMAIN msi.tableDefs)
       IN  msi' = [msi EXCEPT !.tables =
                      [k \in 1..Len(names) |->
                          [name |-> names[k],
                           rowCount |-> RowCount(msi.linearDirList, msi.tableDefs[names[k]])]]]
    /\ pc' = "done"
    /\ out' = [out EXCEPT !.update = TRUE]
    /\ UNCHANGED <<file, gs, lf, fin, fout, hist>>

----------------------------------------------------------------------------
(* Harness for the sector-chain walks: GetStream on the tables a decoded     *)
(* 512-byte-sector file can leave behind, and LoadFAT on its DIFAT chains.   *)

WalkShift == 9
WalkMiniShift == 6
WalkSector == Pow2(WalkShift)
WalkWords == WalkSector \div 4
WalkMini == Pow2(WalkMiniShift)

\* sectors 0 and 1 lie in a file of up to MaxFileSectors sectors or just
\* behind it; sector WalkWords - 1 is the last one a one-sector table covers
\* and lies behind the end of every such file
HotSectors == {0, 1, WalkWords - 1}
LinkValues == HotSectors \cup {WalkWords, ENDOFCHAIN, FREESECT}

\* the chain from start leaves the table within fuel steps (it has no cycle)
RECURSIVE ChainEnds(_, _, _)
ChainEnds(table, sect, fuel) ==
    IF IsSentinel(sect) \/ U32Ge(sect, table.len) THEN TRUE
    ELSE IF fuel = 0 THEN FALSE
    ELSE ChainEnds(table, VecAt(table, sect), fuel - 1)

WalkSizes(unit) ==
    {SizeOf(0)} \cup {SizeOf(k * unit + d) : k \in 0..MaxSizeSectors, d \in {0, 1}}

\* (2^32 - 100 - 1) * unit, the least size whose budget is 0xFFFFFFFF
WrapSize(unit) ==
    LET k    == Log2(unit)
        a    == k \div 8
        c    == k % 8
        W(i) == IF i < 1 \/ i > 4 THEN 0 ELSE IF i = 1 THEN 255 - Slack ELSE 255
    IN  [i \in 1..8 |-> ((W(i - a) * Pow2(c)) % 256) + W(i - a - 1) \div Pow2(8 - c)]

\* GetStream arguments and the state they meet: a one-sector table that holds
\* links at the hot sectors, and `avail` sectors to read from (in mini mode
\* the mini-stream ends inside mini-sector `avail`).  A read to the end of the
\* chain (size 0) takes the full 20000 steps on a cyclic chain; of those calls
\* only the ones on a sector linked to itself are kept.  A size whose budget
\* is 0xFFFFFFFF meets a chain that ends, or the sector behind the file that
\* is linked to itself.
StreamInputs ==
    {i \in [isMini : BOOLEAN, hot : [HotSectors -> LinkValues],
            startSector : LinkValues \ {FREESECT},
            size : WalkSizes(WalkSector) \cup WalkSizes(WalkMini)
                     \cup {WrapSize(WalkSector), WrapSize(WalkMini)},
            avail : 1..MaxFileSectors] :
        /\ i.size \in WalkSizes(IF i.isMini THEN WalkMini ELSE WalkSector)
                           \cup {WrapSize(IF i.isMini THEN WalkMini ELSE WalkSector)}
        /\ ~SizeFits(i.size) =>
              \/ ChainEnds(VecOf(WalkWords, i.hot), i.startSector, 3)
              \/ /\ i.startSector = WalkWords - 1 /\ i.hot[WalkWords - 1] = WalkWords - 1
                 /\ i.avail = 1 /\ i.hot[0] = ENDOFCHAIN /\ i.hot[1] = ENDOFCHAIN
        /\ i.hot[WalkWords - 1] \in {0, WalkWords - 1, ENDOFCHAIN}
        /\ i.hot[1] \in {0, 1, ENDOFCHAIN}
        /\ SizeIsZero(i.size) =>
              \/ ChainEnds(VecOf(WalkWords, i.hot), i.startSector, 3)
              \/ /\ i.startSector = 0 /\ i.hot[0] = 0 /\ i.avail = 1
                 /\ i.hot[1] = ENDOFCHAIN /\ i.hot[WalkWords - 1] = ENDOFCHAIN}

InitStream ==
    \E i \in StreamInputs :
        /\ fin = [op |-> "GetStream", startSector |-> i.startSector, size |-> i.size,
                  isMini |-> i.isMini]
        /\ file = [size |-> HeaderSize + (IF i.isMini THEN 1 ELSE i.avail) * WalkSector,
                   at |-> NoEntries]
        /\ msi = [MsiNew EXCEPT
                    !.header = HeaderOf(WalkShift, WalkMiniShift, <<0>>, ENDOFCHAIN, 1, ENDOFCHAIN, 4096),
                    !.sectorSize = WalkSector,
                    !.miniSectorSize = WalkMini,
                    !.FAT = IF i.isMini THEN VecOf(WalkWords, NoEntries) ELSE VecOf(WalkWords, i.hot),
                    !.miniFAT = IF i.isMini THEN VecOf(WalkWords, i.hot) ELSE VecEmpty,
                    !.miniStream = IF i.isMini
                                   THEN [len |-> i.avail * WalkMini + WalkMini \div 2,
                                         runs |-> <<<<0, 1>>>>, unit |-> WalkSector, mini |-> FALSE]
                                   ELSE EmptyBuffer]
        /\ pc = "idle"
        /\ gs = NoCall
        /\ lf = LfNew
        /\ out = OutNew
        /\ fout = "none"
        /\ hist = <<>>

\* a caller asks for the stream again
Stream_Call ==
    /\ pc = "idle"
    /\ fin.op = "GetStream"
    /\ out.calls < 2
    /\ \E d \in Quotients(fin.size, SectorSizeOf(msi, fin.isMini)) :
          IF d.trap
          THEN /\ pc' = "crashed"
               /\ out' = [out EXCEPT !.crash = "division by zero"]
               /\ gs' = gs
          ELSE /\ pc' = "GetStream"
               /\ gs' = GetStreamFrame(msi, fin.startSector, fin.size, fin.isMini, d.q, "idle")
               /\ out' = [out EXCEPT !.calls = @ + 1]
    /\ UNCHANGED <<file, msi, lf, fin, fout, hist>>

\* LoadFAT inputs: a header with some inline entries and an external DIFAT
\* chain through sectors 2 and 3 of a file of MaxFileSectors + 2 sectors.  A
\* DIFAT sector lists FAT sector 0 first, or also a sector behind the file
\* last, or nothing.  FAT sector 0 holds the chain 0 -> 1 -> end; FAT sector 1
\* chains sector 0 to a sector behind the file that is linked to itself.  A
\* cyclic DIFAT chain is walked 10000 times; of those inputs only the ones
\* that start at sector 2, whose DIFAT sectors list nothing and whose header
\* lists FAT sector 1 are kept.
DifatSectors == {2, 3}
Behind == MaxFileSectors + 7
DifatLinks == DifatSectors \cup {ENDOFCHAIN, FREESECT, Behind}
DifatEntries == {NoEntries, (0 :> 0), (0 :> 0) @@ ((WalkWords - 2) :> Behind)}

DifatInputs ==
    {i \in [inline : {<<>>, <<0>>, <<0, Behind>>, <<0, ENDOFCHAIN, 1>>, <<1>>}, first : DifatLinks,
            entries : [DifatSectors -> DifatEntries], next : [DifatSectors -> DifatLinks]] :
        IF i.inline = <<1>>
        THEN /\ ~ChainEnds(VecOf(WalkWords, i.next), i.first, 2)
             /\ i.first = 2 /\ \A d \in DifatSectors : i.entries[d] = NoEntries
        ELSE ChainEnds(VecOf(WalkWords, i.next), i.first, 2)}

InitDifat ==
    \E i \in DifatInputs :
        /\ fin = [op |-> "GetStream", startSector |-> 0, size |-> SizeOf(WalkSector + 1), isMini |-> FALSE]
        /\ file = [size |-> HeaderSize + (MaxFileSectors + 2) * WalkSector,
                   at |-> PutAll(1 * WalkSector, (0 :> 1) @@ (1 :> ENDOFCHAIN))
                         @@ PutAll(2 * WalkSector, (0 :> WalkWords - 1) @@ ((WalkWords - 1) :> WalkWords - 1))
                         @@ PutAll(3 * WalkSector, i.entries[2] @@ ((WalkWords - 1) :> i.next[2]))
                         @@ PutAll(4 * WalkSector, i.entries[3] @@ ((WalkWords - 1) :> i.next[3]))]
        /\ msi = [MsiNew EXCEPT
                    !.header = HeaderOf(WalkShift, WalkMiniShift, i.inline, i.first, 1, ENDOFCHAIN, 4096),
                    !.sectorSize = WalkSector,
                    !.miniSectorSize = WalkMini]
        /\ pc = "LoadFAT"
        /\ gs = NoCall
        /\ lf = [LfNew EXCEPT !.ret = "idle"]
        /\ out = OutNew
        /\ fout = "none"
        /\ hist = <<>>

InitWalk == InitStream \/ InitDifat

NextWalk ==
    \/ Stream_Call
    \/ GetStream_Loop
    \/ LoadFAT_Begin
    \/ LoadFAT_DifatLoop
    \/ LoadFAT_Sectors

SpecWalk == InitWalk /\ [][NextWalk]_vars

\* C5: every sector-chain walk comes to an end, whatever the table holds and
\* whatever size is asked for: GetStream never stands at a frame that its
\* loop cannot leave.
C5_WalksTerminate == pc = "GetStream" => ~Endless(file, msi, gs)

Returned == pc \notin {"GetStream", "crashed", "hung"} /\ gs.ret # "none"

\* C6: a GetStream call with size > 0 returns at most size bytes, and exactly
\* the smaller of size and the number of bytes the walk appended.
C6_SizedLength ==
    (Returned /\ ~SizeIsZero(gs.size)) =>
        /\ ~SizeLeq(gs.size, gs.result.len - 1)
        /\ gs.result.len = (IF SizeLeq(gs.size, gs.appended) THEN SizeLow(gs.size) ELSE gs.appended)

\* a call that was cut back to size after the chain had supplied more
C6_Witness ==
    /\ Returned /\ ~SizeIsZero(gs.size)
    /\ SizeLeq(gs.size, gs.appended - 1) /\ gs.result.len = SizeLow(gs.size)

\* C7: a GetStream call returns what the first call with the same arguments
\* on the same tables returned, and no step of it changes the object or the file.
C7_Idempotent ==
    [][pc = "GetStream" =>
          /\ msi' = msi /\ file' = file
          /\ (pc' # "GetStream" /\ CallKey(gs) \in DOMAIN hist) => gs'.result = hist[CallKey(gs)]]_vars

\* a second call with the same arguments has returned a buffer that is not empty
C7_Witness ==
    /\ Returned /\ out.calls = 2 /\ gs.result.len > 0
    /\ CallKey(gs) \in DOMAIN hist /\ hist[CallKey(gs)] = gs.result

----------------------------------------------------------------------------
(* Harness for MsiDecompressName: names of up to MaxNameLen code units taken *)
(* from both ends of every range the function tells apart                    *)

NameUnits == {0, 65, 14335, 14336, 14337, 14400, 18431, 18432, 18495, 18496, 18497, 65535}

Names == UNION {[1..n -> NameUnits] : n \in 0..MaxNameLen}

Idle ==
    /\ file = [size |-> 0, at |-> NoEntries]
    /\ msi = MsiNew
    /\ gs = NoCall
    /\ lf = LfNew
    /\ out = OutNew
    /\ hist = <<>>

InitName ==
    /\ Idle
    /\ pc = "MsiDecompressName"
    /\ fin \in [op : {"MsiDecompressName"}, encoded : Names]
    /\ fout = <<>>

Name_Decompress ==
    /\ pc = "MsiDecompressName"
    /\ fout' = MsiDecompressName(fin.encoded)
    /\ pc' = "returned"
    /\ UNCHANGED <<file, msi, gs, lf, out, fin, hist>>

SpecName == InitName /\ [][Name_Decompress]_vars

\* the 64 symbols 0-9, A-Z, a-z, '.', '_' in that order
Alphabet ==
    [i \in 1..10 |-> 47 + i] \o [i \in 1..26 |-> 64 + i] \o [i \in 1..26 |-> 96 + i] \o <<46, 95>>

\* the symbols the claim gives for one code unit
UnitImage(v) ==
    IF 14336 <= v /\ v <= 18431
    THEN <<Alphabet[((v - 14336) % 64) + 1], Alphabet[(((v - 14336) \div 64) % 64) + 1]>>
    ELSE IF 18432 <= v /\ v <= 18495 THEN <<Alphabet[(v - 18432) + 1]>>
    ELSE IF v = 18496 THEN <<33>>
    ELSE <<v>>

RECURSIVE Images(_)
Images(units) == IF units = <<>> THEN <<>> ELSE UnitImage(Head(units)) \o Images(Tail(units))

\* C10: MsiDecompressName maps each code unit on its own and in order (two
\* symbols for 0x3800..0x47FF, low six bits first; one for 0x4800..0x483F; '!'
\* for 0x4840; the unit itself otherwise), and the result is between one and
\* two times as long as the input.
C10_Decompress ==
    pc = "returned" =>
        /\ fout = Images(fin.encoded)
        /\ Len(fin.encoded) <= Len(fout) /\ Len(fout) <= 2 * Len(fin.encoded)

\* a name with a packed pair, a single symbol and a unit passed through
C10_Witness ==
    /\ pc = "returned" /\ Len(fin.encoded) = MaxNameLen
    /\ \E i, j, k \in 1..MaxNameLen :
          /\ fin.encoded[i] = 14400 /\ fin.encoded[j] = 18495 /\ fin.encoded[k] = 18497
    /\ Len(fout) = MaxNameLen + 1

----------------------------------------------------------------------------
(* Harness for Validate: buffers around the header size, with the right or  *)
(* a wrong first byte, and every sectorShift up to ShiftBound and the        *)
(* greatest one                                                              *)

ValidateBuffers ==
    {[size |-> n,
      at |-> (0 :> b) @@ HeaderBytes(shift, WalkMiniShift, <<0>>, ENDOFCHAIN, 1, ENDOFCHAIN, 4096)] :
        n \in {0, HeaderSize - 1, HeaderSize, 2 * HeaderSize},
        b \in {OLE_SIGNATURE[1], 0},
        shift \in 0..ShiftBound \cup {65535}}

InitValidate ==
    /\ Idle
    /\ pc = "Validate"
    /\ fin \in [op : {"Validate"}, buf : ValidateBuffers]
    /\ fout = FALSE

Validate_Run ==
    /\ pc = "Validate"
    /\ fout' \in Validate(fin.buf)
    /\ pc' = "returned"
    /\ UNCHANGED <<file, msi, gs, lf, out, fin, hist>>

SpecValidate == InitValidate /\ [][Validate_Run]_vars

\* C3: Validate accepts a buffer exactly when it holds a whole header, starts
\* with the OLE magic and has a sectorShift of 9, 10, 11 or 12 (the shifts
\* whose 1 << sectorShift is 512, 1024, 2048 or 4096); it rejects every other
\* sectorShift.
C3_ValidateExact ==
    pc = "returned" =>
        (fout <=> /\ fin.buf.size >= HeaderSize
                  /\ \A i \in 1..8 : FileByte(fin.buf, i - 1) = OLE_SIGNATURE[i]
                  /\ FileU16(fin.buf, 30) \in {9, 10, 11, 12})

----------------------------------------------------------------------------
(* Harness for BuildTree: a root and two more entries, storages or streams,  *)
(* with every choice of child and sibling ids among the entries, NOSTREAM    *)
(* and an id behind the array                                                *)

TreeEntries(id) ==
    {[DirEntryNew EXCEPT !.id = id, !.objectType = t, !.leftSiblingId = l,
                         !.rightSiblingId = r, !.childId = c] :
        t \in {1, 2}, l \in {NOSTREAM, 0, 1, 2}, r \in {NOSTREAM, 1, 2, 3}, c \in {NOSTREAM, 1, 2}}

TreeLists ==
    {<<[DirEntryNew EXCEPT !.objectType = 5, !.childId = c, !.leftSiblingId = NOSTREAM,
                           !.rightSiblingId = NOSTREAM], a, b>> :
        c \in {NOSTREAM, 1, 2}, a \in TreeEntries(1), b \in TreeEntries(2)}

InitTree ==
    /\ Idle
    /\ pc = "BuildTree"
    /\ fin \in [op : {"BuildTree"}, list : TreeLists]
    /\ fout = <<>>

Tree_Build ==
    /\ pc = "BuildTree"
    /\ LET r == BuildTree(fin.list, fin.list[1].childId, {0})
       IN  IF r.endless
           THEN /\ pc' = "crashed"
                /\ out' = [out EXCEPT !.crash = "endless recursion in BuildTree"]
                /\ fout' = fout
           ELSE /\ pc' = "returned"
                /\ out' = out
                /\ fout' = r.children
    /\ UNCHANGED <<file, msi, gs, lf, fin, hist>>

SpecTree == InitTree /\ [][Tree_Build]_vars

\* C8: BuildTree returns for a directory in which an entry's left or right
\* sibling id is the entry's own id, or in which sibling ids form a cycle.
C8_SiblingCycleEnds ==
    (/\ pc # "BuildTree"
     /\ \E i \in 1..2 : i \in {fin.list[i + 1].leftSiblingId, fin.list[i + 1].rightSiblingId})
        => pc = "returned"

----------------------------------------------------------------------------
(* Harness for resolvePath: Directory tables over three keys, each absent or *)
(* with a parent (none, itself, another key, a key of no row) and a name,    *)
(* resolved for one key and then, with the cache that left, for another      *)

PathKeys == {<<65>>, <<66>>, <<67>>}
PathNames == {<<>>, <<110>>, <<110, Backslash>>}

DirStructures ==
    UNION {[present -> (PathKeys \cup {<<>>, <<88>>}) \X PathNames] : present \in SUBSET PathKeys}

InitPath ==
    /\ Idle
    /\ pc = "resolvePath"
    /\ fin \in [op : {"resolvePath"}, dirStructure : DirStructures,
                 first : PathKeys, second : PathKeys]
    /\ fout = <<>>

Path_Resolve ==
    /\ pc = "resolvePath"
    /\ \E a \in resolvePath(fin.dirStructure, fin.first, <<>>, {}) :
          IF a.endless
          THEN /\ pc' = "crashed"
               /\ out' = [out EXCEPT !.crash = "endless recursion in resolvePath"]
               /\ fout' = fout
          ELSE \E b \in resolvePath(fin.dirStructure, fin.second, a.cache, {}) :
                  IF b.endless
                  THEN /\ pc' = "crashed"
                       /\ out' = [out EXCEPT !.crash = "endless recursion in resolvePath"]
                       /\ fout' = fout
                  ELSE /\ pc' = "returned"
                       /\ out' = out
                       /\ fout' = <<a.value, b.value>>
    /\ UNCHANGED <<file, msi, gs, lf, fin, hist>>

SpecPath == InitPath /\ [][Path_Resolve]_vars

\* C9: path resolution returns for every Directory table, also one whose
\* parent references form a cycle of two or more keys.
C9_ParentCycleEnds == pc # "resolvePath" => pc = "returned"

----------------------------------------------------------------------------
(* Update on container files: an installer database of 512-byte sectors and *)
(* 64-byte mini-sectors, whole or with some of its bytes changed             *)

\* the offset of sector s, of directory entry i and of mini-sector m
ImageSector(s) == 512 * (s + 1)
ImageEntryAt(i) == ImageSector(1) + DirEntrySize * i
ImageMini(m) == ImageSector(4) + 64 * m

PutBytes(o, bytes) == [k \in o..(o + Len(bytes) - 1) |-> bytes[k - o + 1]]
PutU16s(o, words) ==
    [k \in o..(o + 2 * Len(words) - 1) |->
        IF (k - o) % 2 = 0 THEN words[(k - o) \div 2 + 1] % 256
        ELSE words[(k - o) \div 2 + 1] \div 256]
PutU32s(o, words) == PutAll(o, [k \in 0..(Len(words) - 1) |-> words[k + 1]])

\* the bytes of directory entry i that LoadDirectory reads
ImageEntry(i, name, objectType, left, right, child, start, size) ==
    PutU16s(ImageEntryAt(i), name) @@ PutU16s(ImageEntryAt(i) + 64, <<2 * (Len(name) + 1)>>)
    @@ ((ImageEntryAt(i) + 66) :> objectType)
    @@ PutU32s(ImageEntryAt(i) + 68, <<left, right, child>>)
    @@ PutU32s(ImageEntryAt(i) + 116, <<start, size, 0>>)

\* The root and, as its children, seven streams in a sibling tree under
\* entry 4; the name of _Columns is stored compressed.
ImageDirectory ==
    ImageEntry(0, <<82>>, 5, NOSTREAM, NOSTREAM, 4, 4, 512)
    @@ ImageEntry(1, StringPoolName, 2, NOSTREAM, NOSTREAM, NOSTREAM, 0, 40)
    @@ ImageEntry(2, StringDataName, 2, 1, 3, NOSTREAM, 1, 30)
    @@ ImageEntry(3, <<18496, 15167, 17394, 17464, 17841>>, 2, NOSTREAM, NOSTREAM, NOSTREAM, 2, 88)
    @@ ImageEntry(4, <<5>> \o SummaryInformation, 2, 2, 6, NOSTREAM, 4, 48)
    @@ ImageEntry(5, TableStreamName(FileTable), 2, NOSTREAM, NOSTREAM, NOSTREAM, 5, 12)
    @@ ImageEntry(6, TableStreamName(ComponentTable), 2, 5, 7, NOSTREAM, 6, 6)
    @@ ImageEntry(7, TableStreamName(DirectoryTable), 2, NOSTREAM, NOSTREAM, NOSTREAM, 7, 12)

\* The strings 1..9: File, Component, Directory, A, B, n, C, f|g, 1; their
\* lengths are the high words of the pool.
ImagePool ==
    PutU16s(ImageMini(0) + 4, <<0, 4, 0, 9, 0, 9, 0, 1, 0, 1, 0, 1, 0, 1, 0, 3, 0, 1>>)
    @@ PutBytes(ImageMini(1), FileTable \o ComponentTable \o DirectoryTable
                              \o <<65, 66, 110, 67, 102, 124, 103, 49>>)

\* _Columns: Directory and Component with three string columns each, File
\* with five columns of which the fourth is a 4-byte integer.  Then the
\* tables: directories A and B (B below A, both named n), component C in B,
\* file f|g of component C, size 5, version 1.
ImageTables ==
    PutU16s(ImageMini(2), <<3, 3, 3, 2, 2, 2, 1, 1, 1, 1, 1>>
                          \o <<1, 2, 32771, 1, 2, 3, 1, 2, 3, 4, 5>>
                          \o <<0, 0, 0, 0, 0, 0, 0, 0, 0, 0, 0>>
                          \o <<3400, 3400, 3400, 3400, 3400, 3400, 3400, 3400, 3400, 260, 3400>>)
    @@ PutU16s(ImageMini(7), <<4, 5, 0, 4, 6, 6>>)
    @@ PutU16s(ImageMini(6), <<7, 0, 5>>)
    @@ PutU16s(ImageMini(5), <<8, 7, 8, 5, 0, 9>>)

\* a property set at offset 0 with one property: the title, "Hi"
ImageSummary ==
    PutU32s(ImageMini(4) + 4, <<1, 2, 16, 30, 2>>) @@ PutBytes(ImageMini(4) + 24, <<72, 105>>)
    @@ PutU32s(ImageMini(4) + 44, <<0>>)

\* sector 0 is the FAT, sectors 1-2 the directory, sector 3 the mini-FAT,
\* sector 4 the mini-stream
Image ==
    HeaderBytes(9, 6, <<0>>, ENDOFCHAIN, 1, 3, 4096)
    @@ PutU32s(ImageSector(0) + 4, <<2, ENDOFCHAIN, ENDOFCHAIN, ENDOFCHAIN>>)
    @@ PutU32s(ImageSector(3), <<ENDOFCHAIN, ENDOFCHAIN, 3, ENDOFCHAIN, ENDOFCHAIN,
                                 ENDOFCHAIN, ENDOFCHAIN, ENDOFCHAIN>>)
    @@ ImageDirectory @@ ImagePool @@ ImageTables @@ ImageSummary


\* Changes to the image, one for each way the decode can go: the magic, the
\* sector shifts, an external DIFAT sector, no directory, an entry that is
\* its own left sibling, no pool entry, a pool of two bytes, a root stream of
\* (2^32 - 101) sectors on a sector behind the file that is linked to itself,
\* directories A and B each below the other, no _Columns, no summary, no
\* File stream, an empty root stream
ImageChanges ==
    {(0 :> 0), (30 :> 0), (30 :> 7), (30 :> 41), (32 :> 32),
     PutU32s(68, <<0>>), PutU32s(48, <<ENDOFCHAIN>>),
     PutU32s(ImageEntryAt(1) + 68, <<1>>),
     (ImageEntryAt(1) :> 88),
     PutU32s(ImageEntryAt(1) + 120, <<2>>),
     PutU32s(ImageSector(0) + 400, <<100>>) @@ PutU32s(ImageEntryAt(0) + 116, <<100>>)
         @@ PutBytes(ImageEntryAt(0) + 120, WrapSize(512)),
     PutU16s(ImageMini(7) + 4, <<5>>),
     (ImageEntryAt(3) :> 0), ((ImageEntryAt(4) + 2) :> 0), ((ImageEntryAt(5) + 2) :> 0),
     PutU32s(ImageEntryAt(0) + 120, <<0>>)}

\* the file is whole, ends before the mini-stream, or ends inside the header
ImageSizes == {ImageSector(5), ImageSector(4), 300}

MaxChanges == 2

RECURSIVE Changed(_, _)
Changed(changes, bytes) ==
    IF changes = {} THEN bytes
    ELSE LET c == CHOOSE x \in changes : TRUE
         IN  Changed(changes \ {c}, c @@ bytes)

Init ==
    /\ \E size \in ImageSizes, changes \in SUBSET ImageChanges :
          /\ Cardinality(changes) <= MaxChanges
          /\ file = [size |-> size, at |-> Changed(changes, Image)]
    /\ pc = "Update"
    /\ msi = MsiNew
    /\ gs = NoCall
    /\ lf = LfNew
    /\ out = OutNew
    /\ fin = [op |-> "Update"]
    /\ fout = <<>>
    /\ hist = <<>>

Next ==
    \/ Update_Begin
    \/ LoadFAT_Begin \/ LoadFAT_DifatLoop \/ LoadFAT_Sectors
    \/ GetStream_Loop
    \/ LoadDirectory_Begin \/ LoadDirectory_Parse
    \/ LoadMiniFAT_Begin \/ LoadMiniFAT_Fat \/ LoadMiniFAT_Stream
    \/ BuildTree_Root
    \/ ParseSummaryInformation_Begin \/ ParseSummaryInformation_Parse
    \/ LoadStringPool_Begin \/ LoadStringPool_Data \/ LoadStringPool_Parse
    \/ LoadDatabase_Begin \/ LoadDatabase_Schema \/ LoadDatabase_DirRows
    \/ LoadDatabase_CompRows \/ LoadDatabase_FileRows
    \/ LoadTables

Spec == Init /\ [][Next]_vars

\* Update has ended, one way or another
Ended == pc \in {"done", "crashed", "hung"}

\* the header was read and carries the magic
HeaderAccepted == file.size >= HeaderSize /\ ReadHeader(file).signature = OLE_SIGNATURE

\* the last stream extracted was the directory stream, and it was empty
DirectoryEmpty == gs.ret = "LoadDirectory_parse" /\ gs.result.len = 0

\* C1: Update returns, and it returns false exactly when the header cannot
\* be read, the signature is not the OLE magic, or the directory stream is
\* empty; on every other input it returns true.
C1_UpdateOutcome ==
    Ended => /\ pc = "done"
             /\ out.update = ~(~HeaderAccepted \/ DirectoryEmpty)

\* C2: LoadFAT, LoadDirectory and GetStream run only with a sector size in
\* [512, 4096]; a header with any other sector size makes Update return
\* false before them.
C2_SectorSizeChecked ==
    pc \in {"LoadFAT", "LoadFAT_difat", "LoadFAT_sectors", "LoadDirectory", "GetStream"}
        => msi.sectorSize >= MinSectorSize /\ msi.sectorSize <= MaxSectorSize

\* Update went on to the string pool and found no !_StringPool or no
\* !_StringData entry, or a pool stream of less than 4 bytes
PoolUnloadable ==
    /\ pc = "done" /\ HeaderAccepted /\ ~DirectoryEmpty
    /\ \/ \A i \in 1..Len(msi.linearDirList) : msi.linearDirList[i].decodedName # StringPoolName
       \/ \A i \in 1..Len(msi.linearDirList) : msi.linearDirList[i].decodedName # StringDataName
       \/ lf.bufPool.len < 4

\* C4: when the string pool cannot be loaded, Update returns true with no
\* table definition, no table and no file, and the tree under the root is
\* the one the directory entries alone determine.
C4_PoolFailure ==
    PoolUnloadable =>
        /\ out.update = TRUE
        /\ msi.tableDefs = <<>> /\ msi.tables = <<>> /\ msi.msiFiles = <<>>
        /\ msi.rootDir.children
               = BuildTree(msi.linearDirList, msi.rootDir.childId, {0}).children

\* both pool entries are there, the pool stream has two bytes, the root has
\* children
C4_Witness ==
    /\ PoolUnloadable
    /\ \E i \in 1..Len(msi.linearDirList) : msi.linearDirList[i].decodedName = StringPoolName
    /\ \E i \in 1..Len(msi.linearDirList) : msi.linearDirList[i].decodedName = StringDataName
    /\ lf.bufPool.len = 2
    /\ Len(msi.rootDir.children) = 7

----------------------------------------------------------------------------
(* Harness for the parsing half of LoadStringPool: a !_StringPool stream of *)
(* up to MaxPoolEntries pairs after the header pair and a !_StringData      *)
(* stream of up to MaxPoolData bytes, both already extracted from sectors   *)
(* 0 and 1 of a file                                                        *)

MaxPoolEntries == 2
MaxPoolWord == 2
MaxPoolData == 3

\* <<low word, high word>> of the entries 1 .. count - 1
PoolPairs == UNION {[1..n -> (0..MaxPoolWord) \X (0..MaxPoolWord)] : n \in 0..MaxPoolEntries}

\* the data bytes "abc..."
PoolData == [n \in 0..MaxPoolData |-> [k \in 1..n |-> 96 + k]]

RECURSIVE Flatten(_)
Flatten(pairs) ==
    IF pairs = <<>> THEN <<>> ELSE <<Head(pairs)[1], Head(pairs)[2]>> \o Flatten(Tail(pairs))

PoolFile(pairs, data) ==
    [size |-> 3 * 512,
     at   |-> PutU16s(512, <<0, 0>> \o Flatten(pairs)) @@ PutBytes(1024, data)]

InitPool ==
    /\ fin \in [op : {"LoadStringPool"}, pairs : PoolPairs, data : {PoolData[n] : n \in 0..MaxPoolData}]
    /\ file = PoolFile(fin.pairs, fin.data)
    /\ msi = [MsiNew EXCEPT !.sectorSize = 512, !.miniSectorSize = 64]
    /\ lf = [LfNew EXCEPT !.bufPool = [len |-> 4 * (Len(fin.pairs) + 1), runs |-> <<(<<0, 1>>)>>,
                                       unit |-> 512, mini |-> FALSE]]
    /\ gs = [NoCall EXCEPT !.result = [len |-> Len(fin.data),
                                       runs |-> IF fin.data = <<>> THEN <<>> ELSE <<(<<1, 1>>)>>,
                                       unit |-> 512, mini |-> FALSE],
                           !.isMini = FALSE]
    /\ out = OutNew
    /\ hist = <<>>
    /\ fout = <<>>
    /\ pc = "LoadStringPool_parse"

SpecPool == InitPool /\ [][LoadStringPool_Parse]_vars

RECURSIVE SumOf(_, _)
SumOf(pairs, which) ==
    IF pairs = <<>> THEN 0 ELSE Head(pairs)[which] + SumOf(Tail(pairs), which)

\* the strings cut from data at the lengths pairs[..][which], from offset on
RECURSIVE Cut(_, _, _, _)
Cut(data, pairs, which, offset) ==
    IF pairs = <<>> THEN <<>>
    ELSE IF offset + Head(pairs)[which] > Len(data) THEN <<ErrorText>>
    ELSE <<SubSeq(data, offset + 1, offset + Head(pairs)[which])>>
         \o Cut(data, Tail(pairs), which, offset + Head(pairs)[which])

LowOnly == /\ SumOf(fin.pairs, 1) = Len(fin.data)
           /\ SumOf(fin.pairs, 2) # Len(fin.data)

\* C11: the pool's strings are cut at the low words exactly when the low
\* words add up to the length of !_StringData and the high words do not, and
\* at the high words in every other case (only high, both, neither)
C11_LengthWord ==
    pc # "LoadStringPool_parse" =>
        msi.stringPool = <<(<<>>)>> \o Cut(fin.data, fin.pairs, IF LowOnly THEN 1 ELSE 2, 0)

C11_Witness ==
    /\ pc = "LoadDatabase"
    /\ LowOnly
    /\ fin.pairs = <<(<<1, 2>>), <<2, 2>>>>
    /\ msi.stringPool = <<(<<>>), <<97>>, <<98, 99>>>>

----------------------------------------------------------------------------
(* Harness for the string-index width of LoadDatabase: a !_Columns entry   *)
(* whose streamSize is rows * 8 or rows * 10, and a string pool of         *)
(* poolSize strings                                                        *)

MaxColumnRows == 10

PoolSizes == {1, 65536, 65537}

InitWidth ==
    /\ Idle
    /\ pc = "LoadDatabase"
    /\ fin \in [op : {"stringBytes"}, rows : 1..MaxColumnRows, record : {8, 10}, poolSize : PoolSizes]
    /\ fout = <<>>

Width_Select ==
    /\ pc = "LoadDatabase"
    /\ fout' = StringBytesOf(SizeOf(fin.rows * fin.record), fin.poolSize)
    /\ pc' = "returned"
    /\ UNCHANGED <<file, msi, gs, lf, out, fin, hist>>

SpecWidth == InitWidth /\ [][Width_Select]_vars

\* C12 as stated: a length of 8 * N selects 2-byte string indices and a
\* length of 10 * N selects 3-byte string indices, for every N >= 1
C12_WidthByRecord ==
    pc = "returned" => fout = IF fin.record = 8 THEN 2 ELSE 3

\* C12, amended: the above holds when the length is not a multiple of both 8
\* and 10; a length that is a multiple of both selects 3-byte indices when
\* the pool holds more than 65536 strings and 2-byte indices otherwise
C12_WidthInferred ==
    pc = "returned" =>
        LET length == fin.rows * fin.record
        IN  IF length % 8 = 0 /\ length % 10 = 0
            THEN fout = IF fin.poolSize > 65536 THEN 3 ELSE 2
            ELSE fout = IF fin.record = 8 THEN 2 ELSE 3

C12_Witness ==
    /\ pc = "returned"
    /\ fin.rows = 5 /\ fin.record = 8 /\ fin.poolSize = 65537
    /\ fout = 3

----------------------------------------------------------------------------
(* Harness for ReadTableData: a table "T" of up to MaxTableColumns columns, *)
(* each a 2-byte integer, a 4-byte integer or a string, and its stream of   *)
(* up to MaxTableBytes bytes extracted from sector 0 of a file.  The byte   *)
(* at an even offset o is o / 2 + 1 and the byte at an odd offset is 0, so  *)
(* that a cell tells the offset it was read at.                             *)

MaxTableColumns == 2
MaxTableBytes == 18

TableName == <<84>>
TableTypes == {MSICOL_INTEGER + MSICOL_INT2, MSICOL_INTEGER, 0}
TableBytes(n) == [k \in 1..n |-> IF (k - 1) % 2 = 0 THEN (k - 1) \div 2 + 1 ELSE 0]
\* string k of the pool is the letter after '@' + k
TablePool == [k \in 1..(MaxTableBytes \div 2 + 2) |-> IF k = 1 THEN <<>> ELSE <<63 + k>>]

TableDefs(types, stringBytes) ==
    Widths(TableName :> [name |-> TableName,
                         columns |-> [k \in 1..Len(types) |->
                                         [name |-> <<>>, type |-> types[k], size |-> 0]],
                         rowSize |-> 0],
           stringBytes)

InitTable ==
    /\ fin \in [op : {"ReadTableData"},
                 types : UNION {[1..n -> TableTypes] : n \in 1..MaxTableColumns},
                 stringBytes : {2, 3},
                 data : {TableBytes(n) : n \in 0..MaxTableBytes}]
    /\ file = [size |-> 2 * 512, at |-> PutBytes(512, fin.data)]
    /\ msi = [MsiNew EXCEPT !.sectorSize = 512, !.miniSectorSize = 64,
                            !.stringPool = TablePool,
                            !.stringBytes = fin.stringBytes,
                            !.tableDefs = TableDefs(fin.types, fin.stringBytes)]
    /\ lf = [LfNew EXCEPT !.called = TRUE]
    /\ gs = [NoCall EXCEPT !.result = [len |-> Len(fin.data),
                                       runs |-> IF fin.data = <<>> THEN <<>> ELSE <<(<<0, 1>>)>>,
                                       unit |-> 512, mini |-> FALSE]]
    /\ out = OutNew
    /\ hist = <<>>
    /\ fout = <<>>
    /\ pc = "ReadTableData"

Table_Read ==
    /\ pc = "ReadTableData"
    /\ fout' = ReadTableData_Rows(TableName)
    /\ pc' = "returned"
    /\ UNCHANGED <<file, msi, gs, lf, out, fin, hist>>

SpecTable == InitTable /\ [][Table_Read]_vars

\* the little-endian value of the n bytes of data at offset o
RECURSIVE ValueAt(_, _, _)
ValueAt(data, o, n) == IF n = 0 THEN 0 ELSE data[o + 1] + 256 * ValueAt(data, o + 1, n - 1)

\* the text of a cell of the given type and width read at offset o (no byte
\* of the harness has its top bit set, so no flag bit is there to mask)
TextAt(data, type, width, o) ==
    IF type = 0 THEN GetString(TablePool, ValueAt(data, o, width))
    ELSE to_string(ValueAt(data, o, width))

ColumnMajor ==
    LET cols     == msi.tableDefs[TableName].columns
        rowCount == Len(fin.data) \div msi.tableDefs[TableName].rowSize
        blockStart == [c \in 1..Len(cols) |-> Sum([k \in 1..(c - 1) |-> cols[k].size * rowCount])]
    IN  /\ Len(fout) = rowCount
        /\ \A i \in 0..(rowCount - 1) :
              /\ Len(fout[i + 1]) = Len(cols)
              /\ \A c \in 1..Len(cols) :
                    fout[i + 1][c] = TextAt(fin.data, cols[c].type, cols[c].size,
                                            blockStart[c] + i * cols[c].size)

\* C13: ReadTableData returns floor(length / rowSize) rows in index order, and
\* the cell of row i in column c is the one read at the start of column c's
\* block, the sum of width[k] * rowCount over the columns k before c, plus
\* i * width[c]
C13_ColumnOriented == pc = "returned" => ColumnMajor

\* a 4-byte integer and a 2-byte string index, 3 rows: row 1 has the integer
\* at offset 4 (3 + 65536 * 4) and the string of the index at offset 14 (8)
C13_Witness ==
    /\ pc = "returned"
    /\ fin.types = <<MSICOL_INTEGER, 0>> /\ fin.stringBytes = 2 /\ Len(fin.data) = 18
    /\ Len(fout) = 3
    /\ fout[2] = <<(<<50, 54, 50, 49, 52, 55>>), <<72>>>>

----------------------------------------------------------------------------
(* Directory path resolution as the Directory table defines it *)

\* the path of key: the key itself when no row has it, its name when its
\* parent is empty or the key itself, and otherwise the path of the parent
\* and the name, with a backslash between them unless the path of the parent
\* ends with one
RECURSIVE PathOf(_, _)
PathOf(dirStructure, key) ==
    IF key \notin DOMAIN dirStructure THEN key
    ELSE IF dirStructure[key][1] = <<>> \/ dirStructure[key][1] = key THEN dirStructure[key][2]
    ELSE LET p == PathOf(dirStructure, dirStructure[key][1])
         IN  IF p # <<>> /\ p[Len(p)] = Backslash THEN p \o dirStructure[key][2]
             ELSE p \o <<Backslash>> \o dirStructure[key][2]

\* C14: every key that is resolved resolves to the path the three cases give,
\* also below a parent whose path is the empty string
C14_PathResolved ==
    pc = "returned" =>
        /\ fout[1] = PathOf(fin.dirStructure, fin.first)
        /\ fout[2] = PathOf(fin.dirStructure, fin.second)

----------------------------------------------------------------------------
(* Harness for the file join of LoadDatabase: a File table of four or five  *)
(* string columns with up to MaxFileRows rows, extracted from sector 0 of a *)
(* file, with the Directory and Component maps already built                *)

MaxFileRows == 2

\* "", "F", "C", "D", "f|g", "5", "x", "1"
JoinPool == <<(<<>>), <<70>>, <<67>>, <<68>>, <<102, 124, 103>>, <<53>>, <<120>>, <<49>>>>
PoolIndex(text) == (CHOOSE k \in 1..Len(JoinPool) : JoinPool[k] = text) - 1

\* File, Component_, FileName, FileSize, Version
FileRows == {<<70>>} \X {<<67>>, <<68>>} \X {<<102, 124, 103>>} \X {<<53>>, <<>>, <<120>>} \X {<<49>>}

\* components to directory keys; no row has the key "Z"
CompToDirs == {<<>>, <<67>> :> <<65>>, <<67>> :> <<66>>, <<67>> :> <<90>>}

\* A at the top; A below B; A below B and B below A
JoinDirStructures ==
    {<<65>> :> <<(<<>>), <<110>>>>,
     (<<65>> :> <<(<<66>>), <<110>>>>) @@ (<<66>> :> <<(<<>>), <<109>>>>),
     (<<65>> :> <<(<<66>>), <<110>>>>) @@ (<<66>> :> <<(<<65>>), <<109>>>>)}

\* the table stream: column after column, the pool indices of the cells
FileStream(rows, cells) ==
    [k \in 1..(cells * Len(rows)) |->
        PoolIndex(rows[((k - 1) % Len(rows)) + 1][((k - 1) \div Len(rows)) + 1])]

InitJoin ==
    /\ fin \in [op : {"LoadDatabase"},
                 rows : UNION {[1..n -> FileRows] : n \in 0..MaxFileRows},
                 cells : {4, 5},
                 dirStructure : JoinDirStructures,
                 compToDir : CompToDirs]
    /\ file = [size |-> 2 * 512, at |-> PutU16s(512, FileStream(fin.rows, fin.cells))]
    /\ msi = [MsiNew EXCEPT !.sectorSize = 512, !.miniSectorSize = 64,
                            !.stringPool = JoinPool,
                            !.stringBytes = 2,
                            !.tableDefs = Widths(FileTable :>
                                [name |-> FileTable,
                                 columns |-> [k \in 1..fin.cells |-> ColumnNew],
                                 rowSize |-> 0], 2)]
    /\ lf = [LfNew EXCEPT !.called = TRUE, !.dirStructure = fin.dirStructure,
                          !.compToDir = fin.compToDir]
    /\ gs = [NoCall EXCEPT !.result = [len |-> 2 * fin.cells * Len(fin.rows),
                                       runs |-> IF fin.rows = <<>> THEN <<>> ELSE <<(<<0, 1>>)>>,
                                       unit |-> 512, mini |-> FALSE]]
    /\ out = OutNew
    /\ hist = <<>>
    /\ fout = <<>>
    /\ pc = "LoadDatabase_fileRows"

SpecJoin == InitJoin /\ [][LoadDatabase_FileRows]_vars

\* the number a size cell stands for, 0 when it is not a number
SizeCell(text) ==
    IF text # <<>> /\ \A k \in 1..Len(text) : text[k] \in 48..57
    THEN Sum([k \in 1..Len(text) |-> (text[k] - 48) * (10 ^ (Len(text) - k))])
    ELSE 0

\* the component, directory and size of the entry a File row produces
Joined(row) ==
    [Component |-> row[2],
     Directory |-> IF row[2] \in DOMAIN fin.compToDir
                   THEN PathOf(fin.dirStructure, fin.compToDir[row[2]])
                   ELSE OrphanedText,
     Size      |-> SizeCell(row[4])]

\* C15: the join ends with one file entry per File row of at least 5 cells,
\* in row order, whose directory is the resolved path of the directory of
\* its component, or "<Orphaned>" when no Component row maps the component,
\* and whose size is 0 when the size cell is not a number
C15_FileJoin ==
    pc # "LoadDatabase_fileRows" =>
        /\ pc = "LoadTables"
        /\ Len(msi.msiFiles) = IF fin.cells < 5 THEN 0 ELSE Len(fin.rows)
        /\ \A i \in 1..Len(msi.msiFiles) :
              [Component |-> msi.msiFiles[i].Component,
               Directory |-> msi.msiFiles[i].Directory,
               Size      |-> msi.msiFiles[i].Size] = Joined(fin.rows[i])

----------------------------------------------------------------------------
(* The order of the stages of Update *)

\* the step of Update whose code runs: during GetStream, that of its caller
Running == IF pc = "GetStream" THEN gs.ret ELSE pc

\* the steps in the order of the program text; 90 once Update has ended
Rank ==
    CASE Running = "Update" -> 0
      [] Running = "LoadFAT" -> 10
      [] Running = "LoadFAT_difat" -> 11
      [] Running = "LoadFAT_sectors" -> 12
      [] Running = "LoadDirectory" -> 20
      [] Running = "LoadDirectory_parse" -> 21
      [] Running = "LoadMiniFAT" -> 30
      [] Running = "LoadMiniFAT_fat" -> 31
      [] Running = "LoadMiniFAT_stream" -> 32
      [] Running = "BuildTree" -> 40
      [] Running = "ParseSummaryInformation" -> 50
      [] Running = "ParseSummaryInformation_parse" -> 51
      [] Running = "LoadStringPool" -> 60
      [] Running = "LoadStringPool_data" -> 61
      [] Running = "LoadStringPool_parse" -> 62
      [] Running = "LoadDatabase" -> 70
      [] Running = "LoadDatabase_schema" -> 71
      [] Running = "LoadDatabase_dirRows" -> 72
      [] Running = "LoadDatabase_compRows" -> 73
      [] Running = "LoadDatabase_fileRows" -> 74
      [] Running = "LoadTables" -> 80
      [] OTHER -> 90

\* Update goes on from a step before `stage` to a later step of the decode
Passes(stage) == Rank < stage /\ Rank' >= stage /\ Rank' < 90

\* C16: the steps of one Update run in the order of the program; a stream is
\* extracted only after LoadFAT has built the FAT; LoadMiniFAT starts only
\* after LoadDirectory has loaded the entries and the root; a stream is
\* extracted in mini mode only after LoadMiniFAT has loaded the Mini-FAT and
\* the mini-stream; and the schema and the file join run only after
\* LoadStringPool has left a pool that is not empty
C16_StageOrder ==
    /\ [][Rank' >= Rank]_vars
    /\ [][Passes(20) => LoadFAT_Sectors]_vars
    /\ [][Passes(30) => LoadDirectory_Parse]_vars
    /\ [][Passes(40) => LoadMiniFAT_Fat \/ LoadMiniFAT_Stream]_vars
    /\ [][Passes(70) => LoadStringPool_Parse /\ msi'.stringPool # <<>>]_vars
    /\ [](pc = "GetStream" => Rank >= 20)
    /\ [](pc = "GetStream" /\ gs.isMini => Rank >= 40)
    /\ [](Rank >= 70 /\ Rank < 80 => msi.stringPool # <<>>)

\* the File table is being extracted in mini mode
C16_Witness ==
    /\ pc = "GetStream"
    /\ gs.isMini
    /\ gs.ret = "LoadDatabase_fileRows"
    /\ msi.miniFAT.len > 0
    /\ msi.miniStream.len > 0
    /\ msi.stringPool # <<>>

----------------------------------------------------------------------------
(* What one step of the GetStream loop reads *)

\* the step ran the loop body and so followed the link table[sect]
Followed == gs'.limit = gs.limit + 1 /\ ~BudgetSpent(gs.limit, gs.maxSectors)

\* the mini-sector sect lies within the mini-stream
MiniSectorFits ==
    gs.sect * msi.miniSectorSize + msi.miniSectorSize <= msi.miniStream.len

\* C17: a step of GetStream indexes the chosen table only with a sector below
\* the table's length, and a sector at or beyond it ends the walk with what
\* was accumulated; in mini mode the step copies the sector exactly when
\* sect * miniSectorSize + miniSectorSize <= the mini-stream's length, and
\* otherwise adds no byte and the walk goes on
C17_InBounds ==
    [][pc = "GetStream" /\ pc' # "hung" =>
        /\ Followed => U32Lt(gs.sect, TableOf(msi, gs.isMini).len)
        /\ U32Ge(gs.sect, TableOf(msi, gs.isMini).len) =>
              pc' = gs.ret /\ gs'.result = gs.result
        /\ gs.isMini /\ Followed => (gs'.appended > gs.appended <=> MiniSectorFits)
        /\ gs.isMini /\ Followed /\ ~MiniSectorFits =>
              pc' = "GetStream" /\ gs'.result = gs.result]_vars

\* mini-sector 1 ended behind the mini-stream and was skipped; the walk is at
\* its link, sector 0
C17_Witness ==
    /\ pc = "GetStream"
    /\ gs.isMini
    /\ gs.startSector = 1 /\ gs.sect = 0
    /\ gs.limit = 1 /\ gs.appended = 0
    /\ msi.miniStream.len < 2 * msi.miniSectorSize

----------------------------------------------------------------------------
(* The step budget of GetStream *)

\* floor(size / sSize) as a uint32, plus 100, for a known size; else 20000
StepBudget ==
    IF SizeIsZero(gs.size) THEN UnknownSizeCap ELSE Quotient32(gs.size, gs.sSize) + Slack

\* C18: the number of sectors a GetStream call has visited, which is the
\* number of loop bodies it has run, never exceeds floor(size / sSize) + 100
\* for size > 0 and never exceeds 20000 for size = 0
C18_StepBudget == pc = "GetStream" => ~U32Lt(StepBudget, gs.limit)

----------------------------------------------------------------------------
(* BuildTree across storage levels *)

\* no walk along sibling ids meets an entry again
SiblingsAcyclic(list) == \A id \in 0..(Len(list) - 1) : ~traverse(list, id, {}).endless

\* C19: BuildTree returns for every directory array whose sibling ids form no
\* cycle, also when a storage or the root turns up in its own child subtree
C19_StorageCycleEnds ==
    (pc # "BuildTree" /\ SiblingsAcyclic(fin.list)) => pc = "returned"

----------------------------------------------------------------------------
(* The children BuildTree gives an entry *)

\* the ids an entry's sibling ids lead to: id is left out when it is NOSTREAM
\* or behind the array
Listed(list, id) == IF id = NOSTREAM \/ U32Ge(id, Len(list)) THEN {} ELSE {id}
SiblingsOf(list, id) ==
    Listed(list, list[id + 1].leftSiblingId) \cup Listed(list, list[id + 1].rightSiblingId)

\* the entries reached from the ids in `from` along sibling ids
RECURSIVE Reach(_, _)
Reach(list, from) ==
    LET more == from \cup UNION {SiblingsOf(list, id) : id \in from}
    IN  IF more = from THEN from ELSE Reach(list, more)

\* the sibling ids below childId form a binary tree: no entry below it is the
\* left or right sibling of two entries, or both of one, and none leads back
\* to childId
SiblingTree(list, childId) ==
    LET nodes == Reach(list, Listed(list, childId))
        Parents(id) ==
            Cardinality({n \in nodes : list[n + 1].leftSiblingId = id})
            + Cardinality({n \in nodes : list[n + 1].rightSiblingId = id})
    IN  \A id \in nodes : Parents(id) = (IF id = childId THEN 0 ELSE 1)

\* ids lists the entries below childId once each, every entry after all those
\* below its left sibling and before all those below its right sibling
InOrder(list, childId, ids) ==
    LET At(id) == CHOOSE p \in 1..Len(ids) : ids[p] = id
    IN  /\ {ids[p] : p \in 1..Len(ids)} = Reach(list, Listed(list, childId))
        /\ Len(ids) = Cardinality(Reach(list, Listed(list, childId)))
        /\ \A p \in 1..Len(ids) :
              /\ \A id \in Reach(list, Listed(list, list[ids[p] + 1].leftSiblingId)) : At(id) < p
              /\ \A id \in Reach(list, Listed(list, list[ids[p] + 1].rightSiblingId)) : At(id) > p

\* children is what the claim demands for an entry with the given childId,
\* at this level and in every storage below
RECURSIVE ChildrenInOrder(_, _, _)
ChildrenInOrder(list, childId, children) ==
    /\ SiblingTree(list, childId) =>
          InOrder(list, childId, [k \in 1..Len(children) |-> children[k].id])
    /\ \A k \in 1..Len(children) :
          /\ children[k].id \in 0..(Len(list) - 1)
          /\ IF list[children[k].id + 1].objectType \in {1, 5}
             THEN ChildrenInOrder(list, list[children[k].id + 1].childId, children[k].children)
             ELSE children[k].children = <<>>

\* C20: for an entry whose sibling ids form a finite binary tree, the children
\* BuildTree returns are the entries reached from childId in in-order (left
\* subtree, node, right subtree); a child or sibling id that is NOSTREAM or
\* behind the array adds no child; and only the children of type storage or
\* root have children of their own
C20_InOrderChildren ==
    pc = "returned" => ChildrenInOrder(fin.list, fin.list[1].childId, fout)

\* entry 2 with entry 1 to its left and an id behind the array to its right;
\* entry 1 is a storage with no child
C20_Witness ==
    /\ pc = "returned"
    /\ fin.list[1].childId = 2
    /\ fin.list[3].leftSiblingId = 1 /\ fin.list[3].rightSiblingId = 3
    /\ fin.list[2].objectType = 1 /\ fin.list[2].childId = NOSTREAM
    /\ fout = <<[id |-> 1, children |-> <<>>], [id |-> 2, children |-> <<>>]>>

----------------------------------------------------------------------------
(* The FAT that LoadFAT assembles *)

Unlisted(w) == w = ENDOFCHAIN \/ w = NOSTREAM
Listable(w) == ~Unlisted(w)

\* the header's inline DIFAT entries before the first ENDOFCHAIN or NOSTREAM
InlineList ==
    LET n == Cardinality({i \in 0..(HeaderDifatCount - 1) :
                             \A j \in 0..i : Listable(VecAt(msi.header.difat, j))})
    IN  [i \in 1..n |-> VecAt(msi.header.difat, i - 1)]

\* uint32 k of sector s of the file
WordOf(s, k) == FileU32(file, (s + 1) * msi.sectorSize + 4 * k)

RECURSIVE Ascending(_)
Ascending(S) ==
    IF S = {} THEN <<>>
    ELSE LET least == CHOOSE x \in S : \A y \in S : x <= y
         IN  <<least>> \o Ascending(S \ {least})

\* the entries of DIFAT sector s that are no sentinel, in order; its last
\* uint32 is the link to the next DIFAT sector.  A uint32 none of whose bytes
\* the file describes is 0xFFFFFFFF, so only the described ones are looked at.
DifatKept(s) ==
    LET base  == (s + 1) * msi.sectorSize
        words == {(o - base) \div 4 :
                     o \in {p \in DOMAIN file.at :
                               p >= base /\ p < base + msi.sectorSize - 4}}
        kept  == Ascending({k \in words : Listable(WordOf(s, k))})
    IN  [i \in 1..Len(kept) |-> WordOf(s, kept[i])]

\* sector s can be read at offset (s + 1) * sectorSize
ReadableAt(s) == s >= 0 /\ (s + 1) * msi.sectorSize + msi.sectorSize <= file.size

\* fat is the concatenation of the sectorSize / 4 entries of every listed
\* sector that can be read, in list order
Concatenated(fat, list) ==
    LET read  == SelectSeq(list, ReadableAt)
        count == msi.sectorSize \div 4
    IN  /\ fat.len = count * Len(read)
        /\ \A j \in 1..Len(read) : \A k \in 0..(count - 1) :
              VecAt(fat, (j - 1) * count + k) = WordOf(read[j], k)

\* C21: LoadFAT starts its list with the inline DIFAT entries before the first
\* sentinel, adds the non-sentinel entries of every external DIFAT sector it
\* visits, following the link in the sector's last uint32, and leaves as the
\* FAT the entries of every listed sector that can be read, in list order; a
\* listed sector that cannot be read is skipped and LoadFAT still returns
C21_FatAssembly ==
    [][/\ pc = "LoadFAT" => lf'.difatList = InlineList
       /\ (pc = "LoadFAT_difat" /\ pc' = "LoadFAT_difat") =>
             /\ lf'.difatList = lf.difatList \o DifatKept(lf.currentDifatSector)
             /\ lf'.currentDifatSector =
                   WordOf(lf.currentDifatSector, msi.sectorSize \div 4 - 1)
       /\ (pc = "LoadFAT_difat" /\ pc' = "LoadFAT_sectors") => lf'.difatList = lf.difatList
       /\ pc = "LoadFAT_sectors" =>
             /\ pc' = lf.ret
             /\ Concatenated(msi'.FAT, lf.difatList)]_vars

\* the header lists FAT sector 0 before a sentinel, a DIFAT sector lists it
\* again and a sector behind the file: two sectors' entries make the FAT
C21_Witness ==
    /\ pc = "idle"
    /\ VecAt(msi.header.difat, 1) = ENDOFCHAIN /\ VecAt(msi.header.difat, 2) = 1
    /\ lf.difatList = <<0, 0, Behind>>
    /\ msi.FAT.len = 2 * WalkWords

----------------------------------------------------------------------------
(* Harness for the slicing of LoadStringPool: as the pool harness, with NUL *)
(* bytes in the data and a pool stream that may end in a broken pair        *)

\* data bytes NUL, 'b', NUL, 'd', ...
NulData == [n \in 0..MaxPoolData |-> [k \in 1..n |-> IF k % 2 = 1 THEN 0 ELSE 96 + k]]

InitSlice ==
    /\ fin \in [op : {"LoadStringPool"}, pairs : PoolPairs, extra : {0, 3},
                 data : {PoolData[n] : n \in 0..MaxPoolData} \cup {NulData[n] : n \in 0..MaxPoolData}]
    /\ file = PoolFile(fin.pairs, fin.data)
    /\ msi = [MsiNew EXCEPT !.sectorSize = 512, !.miniSectorSize = 64]
    /\ lf = [LfNew EXCEPT !.bufPool = [len |-> 4 * (Len(fin.pairs) + 1) + fin.extra,
                                       runs |-> <<(<<0, 1>>)>>, unit |-> 512, mini |-> FALSE]]
    /\ gs = [NoCall EXCEPT !.result = [len |-> Len(fin.data),
                                       runs |-> IF fin.data = <<>> THEN <<>> ELSE <<(<<1, 1>>)>>,
                                       unit |-> 512, mini |-> FALSE]]
    /\ out = OutNew
    /\ hist = <<>>
    /\ fout = <<>>
    /\ pc = "LoadStringPool_parse"

SpecSlice == InitSlice /\ [][LoadStringPool_Parse]_vars

\* the length word of entry i, and where its span starts and ends
LengthOf(i) == fin.pairs[i][IF LowOnly THEN 1 ELSE 2]
SpanStart(i) == SumOf(SubSeq(fin.pairs, 1, i - 1), IF LowOnly THEN 1 ELSE 2)
SpanEnd(i) == SpanStart(i) + LengthOf(i)

\* the entries whose span would end beyond the data
Overrun == {i \in 1..Len(fin.pairs) : SpanEnd(i) > Len(fin.data)}

\* s without its trailing NUL bytes
Stripped(s) ==
    LET keep == {k \in 1..Len(s) : s[k] # 0}
    IN  SubSeq(s, 1, IF keep = {} THEN 0 ELSE CHOOSE k \in keep : \A j \in keep : j <= k)

\* C22: after a successful LoadStringPool entry 0 is empty; entry i is the
\* span of !_StringData that starts where the spans of the entries before it
\* end, without its trailing NULs; the first entry whose span would end
\* beyond the data is "<Error>" and the last of the pool; and with no such
\* entry the pool has floor(pool length / 4) entries, all of them spans
C22_Slicing ==
    pc = "LoadDatabase" =>
        LET pool == msi.stringPool
            last == IF Overrun = {} THEN Len(fin.pairs)
                    ELSE CHOOSE i \in Overrun : \A j \in Overrun : i <= j
        IN  /\ Len(pool) = last + 1
            /\ Overrun = {} => Len(pool) = lf.bufPool.len \div 4
            /\ pool[1] = <<>>
            /\ \A i \in 1..last :
                  pool[i + 1] = IF i \in Overrun THEN ErrorText
                                ELSE Stripped(SubSeq(fin.data, SpanStart(i) + 1, SpanEnd(i)))

\* "\0b" cut from "\0b\0" with its NUL stripped, then an entry of 2 bytes
\* where 0 are left; the pool stream ends in 3 bytes of a broken pair
C22_Witness ==
    /\ pc = "LoadDatabase"
    /\ fin.extra = 3
    /\ fin.data = <<0, 98, 0>>
    /\ msi.stringPool = <<(<<>>), <<0, 98>>, ErrorText>>

----------------------------------------------------------------------------
(* Harness for the width decision of LoadDatabase: a _Columns stream of any *)
(* length up to MaxColumnsLength, 0 for an empty or a missing one           *)

MaxColumnsLength == 80

InitDecision ==
    /\ Idle
    /\ pc = "LoadDatabase"
    /\ fin \in [op : {"colRowSize"}, length : 0..MaxColumnsLength, poolSize : PoolSizes]
    /\ fout = <<>>

Width_Decide ==
    /\ pc = "LoadDatabase"
    /\ LET stringBytes == StringBytesOf(SizeOf(fin.length), fin.poolSize)
       IN  fout' = [stringBytes |-> stringBytes, colRowSize |-> ColRowSize(stringBytes)]
    /\ pc' = "returned"
    /\ UNCHANGED <<file, msi, gs, lf, out, fin, hist>>

SpecDecision == InitDecision /\ [][Width_Decide]_vars

Heuristic == IF fin.poolSize > 65536 THEN 3 ELSE 2

\* C23 as stated: with L the length of _Columns the width is 3 when L is a
\* multiple of 10 and not of 8, 2 when L is a multiple of 8 and not of 10,
\* and that of the pool-size heuristic when L is a multiple of both; the
\* width is 2 or 3 and a schema record has 2 * width + 4 bytes
C23_DecisionTable ==
    pc = "returned" =>
        /\ (fin.length % 10 = 0 /\ fin.length % 8 # 0) => fout.stringBytes = 3
        /\ (fin.length % 8 = 0 /\ fin.length % 10 # 0) => fout.stringBytes = 2
        /\ (fin.length % 8 = 0 /\ fin.length % 10 = 0) => fout.stringBytes = Heuristic
        /\ fout.stringBytes \in {2, 3}
        /\ fout.colRowSize = 2 * fout.stringBytes + 4

\* C23, amended: an empty or missing _Columns leaves the width at 2, and a
\* length above 0 that is a multiple of neither 8 nor 10 takes the heuristic
\* as well
C23_DecisionAboveZero ==
    pc = "returned" =>
        /\ fout.stringBytes =
              IF fin.length = 0 THEN 2
              ELSE IF fin.length % 10 = 0 /\ fin.length % 8 # 0 THEN 3
              ELSE IF fin.length % 8 = 0 /\ fin.length % 10 # 0 THEN 2
              ELSE Heuristic
        /\ fout.stringBytes \in {2, 3}
        /\ fout.colRowSize = 2 * fout.stringBytes + 4

\* 40 bytes and a pool of 65537 strings: records of 10 bytes
C23_Witness ==
    /\ pc = "returned"
    /\ fin.length = 40 /\ fin.poolSize = 65537
    /\ fout = [stringBytes |-> 3, colRowSize |-> 10]

----------------------------------------------------------------------------
(* Harness for the schema of LoadDatabase: a _Columns stream of up to       *)
(* MaxSchemaRows records <<table index, column number, name index, type>>   *)
(* laid out block after block in sector 0, over the pool "", "T", "U",      *)
(* "<Error>", "n"                                                           *)

MaxSchemaRows == 2

SchemaPool == <<(<<>>), <<84>>, <<85>>, ErrorText, <<110>>>>

\* "T" and "U" with column 1 or 2 a string (0x0900), a 2-byte integer (0x0502)
\* or a 4-byte integer (0x0104); the names "", "<Error>" and one behind the
\* pool; the column numbers 0 and 256; column 2 and a 2-byte integer with
\* their top bits set; a string whose low nibble is 2 (0x0802)
SchemaRecords ==
    ({1, 2} \X {1, 2} \X {4} \X {2304, 1282, 260})
        \cup {<<0, 1, 4, 1282>>, <<3, 1, 4, 1282>>, <<9, 1, 4, 1282>>,
              <<1, 0, 4, 1282>>, <<1, 256, 4, 1282>>,
              <<1, 32770, 4, 34050>>, <<1, 1, 4, 2050>>}

\* the n bytes of v, lowest first
LittleEndian(v, n) == [k \in 1..n |-> (v \div (256 ^ (k - 1))) % 256]

RECURSIVE Block(_, _, _)
Block(rows, field, n) ==
    IF rows = <<>> THEN <<>> ELSE LittleEndian(Head(rows)[field], n) \o Block(Tail(rows), field, n)

SchemaBytes(rows, stringBytes, stray) ==
    Block(rows, 1, stringBytes) \o Block(rows, 2, 2) \o Block(rows, 3, stringBytes)
        \o Block(rows, 4, 2) \o [k \in 1..stray |-> 1]

InitSchema ==
    /\ fin \in [op : {"LoadDatabase"},
                 rows : UNION {[1..n -> SchemaRecords] : n \in 0..MaxSchemaRows},
                 stringBytes : {2, 3},
                 stray : {0, 1}]
    /\ LET data == SchemaBytes(fin.rows, fin.stringBytes, fin.stray)
       IN  /\ file = [size |-> 2 * 512, at |-> PutBytes(512, data)]
           /\ gs = [NoCall EXCEPT !.result = [len |-> Len(data),
                                              runs |-> IF data = <<>> THEN <<>> ELSE <<(<<0, 1>>)>>,
                                              unit |-> 512, mini |-> FALSE]]
    /\ msi = [MsiNew EXCEPT !.sectorSize = 512, !.miniSectorSize = 64,
                            !.stringPool = SchemaPool,
                            !.stringBytes = fin.stringBytes]
    /\ lf = [LfNew EXCEPT !.called = TRUE]
    /\ out = OutNew
    /\ hist = <<>>
    /\ fout = <<>>
    /\ pc = "LoadDatabase_schema"

SpecSchema == InitSchema /\ [][LoadDatabase_Schema]_vars

\* the table a schema row names and its column number, top bit cleared
NamedBy(row) == IF row[1] < Len(SchemaPool) THEN SchemaPool[row[1] + 1] ELSE <<>>
NumberOf(row) == row[2] % 32768

\* the schema rows that define a column
Defining == {i \in 1..Len(fin.rows) :
                /\ NamedBy(fin.rows[i]) # <<>>
                /\ NamedBy(fin.rows[i]) # ErrorText
                /\ NumberOf(fin.rows[i]) \in 1..255}

\* the rows that define slot k of table name
Filling(name, k) ==
    {i \in Defining : NamedBy(fin.rows[i]) = name /\ NumberOf(fin.rows[i]) = k}

\* the width a type code stands for, top bit cleared
WidthOf(code) ==
    LET t == code % 32768
    IN  IF (t \div 2048) % 2 = 1 THEN fin.stringBytes
        ELSE IF t % 16 = 2 THEN 2 ELSE 4

----------------------------------------------------------------------------
(* The cells of ReadTableData *)

\* where the cell of row i (from 0) and column c of the table stream lies
CellOffset(i, c) ==
    LET cols     == msi.tableDefs[TableName].columns
        rowCount == Len(fin.data) \div msi.tableDefs[TableName].rowSize
    IN  Sum([k \in 1..(c - 1) |-> cols[k].size * rowCount]) + i * cols[c].size

\* C25: every row ReadTableData returns has one cell for each column of the
\* definition; a cell whose bytes do not all lie in the buffer is
\* "<Corrupt>", every other cell is decoded from bytes of the buffer, and a
\* string cell whose index is not below the size of the pool is empty
C25_CellSafety ==
    pc = "returned" =>
        LET cols == msi.tableDefs[TableName].columns
        IN  \A i \in 1..Len(fout) :
               /\ Len(fout[i]) = Len(cols)
               /\ \A c \in 1..Len(cols) :
                     LET o == CellOffset(i - 1, c)
                     IN  IF o + cols[c].size > Len(fin.data)
                         THEN fout[i][c] = CorruptText
                         ELSE /\ fout[i][c] # CorruptText
                              /\ (/\ cols[c].type = 0
                                  /\ ValueAt(fin.data, o, cols[c].size) >= Len(msi.stringPool))
                                    => fout[i][c] = <<>>

\* a 2-byte integer and a 3-byte string index, 2 rows: the indices at offsets
\* 4 and 7 are 3 + 65536 * 4 and 256 * 5, behind the pool of 11 strings
C25_Witness ==
    /\ pc = "returned"
    /\ fin.types = <<MSICOL_INTEGER + MSICOL_INT2, 0>> /\ fin.stringBytes = 3
    /\ Len(fin.data) = 10
    /\ fout = <<(<<(<<49>>), <<>>>>), <<(<<50>>), <<>>>>>>

----------------------------------------------------------------------------
(* Harness for ParseSummaryInformation: a directory list with the streams   *)
(* "\005SummaryInformation" in sector 0 and                                 *)
(* "\005DocumentSummaryInformation" in sector 1 of a 512-byte-sector file.  *)
(* The first stream has its section at offset 48, two property entries at   *)
(* 56 and 64 and two values of 16 bytes at 72 and 88 (24 and 40 from the    *)
(* start of the section); the directory entry declares its first n bytes.   *)

SummaryName == <<5>> \o SummaryInformation
DocumentName == <<5, 68, 111, 99, 117, 109, 101, 110, 116>> \o SummaryInformation
PlainName == <<65>>

\* VT_LPSTR "ab" with its NUL; VT_LPSTR that declares 100 chars; VT_FILETIME
\* of 2^56 * 0x01D0; VT_I4 7; VT_I2; a tag that is no type
ValueLpstr == LittleEndian(30, 4) \o LittleEndian(3, 4) \o <<97, 98, 0, 120, 120, 120, 120, 120>>
ValueLong == LittleEndian(30, 4) \o LittleEndian(100, 4) \o <<97, 98, 99, 100, 101, 102, 103, 104>>
ValueTime == LittleEndian(64, 4) \o <<0, 0, 0, 0, 0, 0, 208, 1>> \o <<120, 120, 120, 120>>
ValueInt == LittleEndian(3, 4) \o LittleEndian(7, 4) \o <<120, 120, 120, 120, 120, 120, 120, 120>>
ValueShort == LittleEndian(2, 4) \o LittleEndian(7, 4) \o <<120, 120, 120, 120, 120, 120, 120, 120>>
ValueOther == LittleEndian(99, 4) \o LittleEndian(3, 4) \o <<97, 98, 0, 120, 120, 120, 120, 120>>

\* the ids the spec names and some it does not
PropertyIds == {1, 2, 3, 4, 5, 6, 7, 9, 12, 13, 14, 15, 18, 19, 20}

SummaryInput(list, n, sectionOffset, count, entries, values) ==
    [op |-> "ParseSummaryInformation", list |-> list, n |-> n, sectionOffset |-> sectionOffset,
     count |-> count, entries |-> entries, values |-> values]

\* streams cut short at every part of the layout, entries that point into
\* and behind the section, counts below and above the entries there are
BoundsInputs ==
    {SummaryInput("first", n, 48, count, <<(<<id, off>>), <<2, other>>>>, <<one, two>>) :
        n \in {47, 48, 55, 60, 71, 72, 75, 79, 88, 92, 99, 100, 104}, count \in {1, 2, 1000},
        id \in {2, 12, 15}, off \in {24, 40, 50, 5000}, other \in {24, 40},
        one \in {ValueLpstr, ValueLong, ValueTime, ValueInt}, two \in {ValueLong, ValueInt}}

\* sections that start behind the stream, at its last 4 bytes, inside it
SectionInputs ==
    {SummaryInput("first", n, sectionOffset, 2, <<(<<2, 24>>), <<15, 40>>>>, <<ValueLpstr, ValueInt>>) :
        n \in {100, 104}, sectionOffset \in {56, 100, 104, 5000}}

\* the stream first, after a stream with another name, after the document
\* summary, and missing
ListInputs ==
    {SummaryInput(list, n, 48, 2, <<(<<2, 24>>), <<15, 40>>>>, <<ValueLpstr, ValueInt>>) :
        list \in {"first", "second", "last", "none"}, n \in {40, 104}}

\* every id with every type
DispatchInputs ==
    {SummaryInput("first", 104, 48, 2, <<(<<id, 24>>), <<7, 40>>>>, <<one, ValueOther>>) :
        id \in PropertyIds,
        one \in {ValueLpstr, ValueTime, ValueInt, ValueShort, ValueOther}}

SummaryBytes(in) ==
    [k \in 1..44 |-> 0] \o LittleEndian(in.sectionOffset, 4)
        \o LittleEndian(0, 4) \o LittleEndian(in.count, 4)
        \o LittleEndian(in.entries[1][1], 4) \o LittleEndian(in.entries[1][2], 4)
        \o LittleEndian(in.entries[2][1], 4) \o LittleEndian(in.entries[2][2], 4)
        \o in.values[1] \o in.values[2]

\* the document summary: one property, the title "zz"
DocumentBytes ==
    [k \in 1..44 |-> 0] \o LittleEndian(48, 4) \o LittleEndian(0, 4) \o LittleEndian(1, 4)
        \o LittleEndian(2, 4) \o LittleEndian(16, 4)
        \o LittleEndian(30, 4) \o LittleEndian(2, 4) \o <<122, 122>>

StreamEntry(name, start, size) ==
    [DirEntryNew EXCEPT !.name = name, !.startingSectorLocation = start, !.streamSize = SizeOf(size)]

SummaryList(in) ==
    LET summary  == StreamEntry(SummaryName, 0, in.n)
        document == StreamEntry(DocumentName, 1, Len(DocumentBytes))
        plain    == StreamEntry(PlainName, 1, Len(DocumentBytes))
    IN  CASE in.list = "first" -> <<summary, document>>
          [] in.list = "second" -> <<plain, summary, document>>
          [] in.list = "last" -> <<document, summary>>
          [] OTHER -> <<plain>>

InitSummary ==
    /\ fin \in BoundsInputs \cup SectionInputs \cup ListInputs \cup DispatchInputs
    /\ file = [size |-> 3 * 512,
               at   |-> PutBytes(512, SummaryBytes(fin)) @@ PutBytes(1024, DocumentBytes)]
    /\ msi = [MsiNew EXCEPT !.sectorSize = 512, !.miniSectorSize = 64,
                            !.FAT = VecFrom(128, <<ENDOFCHAIN, ENDOFCHAIN>>),
                            !.linearDirList = SummaryList(fin)]
    /\ gs = NoCall
    /\ lf = LfNew
    /\ out = OutNew
    /\ hist = <<>>
    /\ fout = <<>>
    /\ pc = "ParseSummaryInformation"

NextSummary ==
    \/ ParseSummaryInformation_Begin
    \/ GetStream_Loop
    \/ ParseSummaryInformation_Parse

SpecSummary == InitSummary /\ [][NextSummary]_vars

\* the first entry of the list whose raw name contains "SummaryInformation",
\* 0 when there is none
FirstSummary ==
    LET found == {i \in 1..Len(msi.linearDirList) :
                     \E k \in 1..(Len(msi.linearDirList[i].name) - 17) :
                         SubSeq(msi.linearDirList[i].name, k, k + 17) = SummaryInformation}
    IN  IF found = {} THEN 0 ELSE CHOOSE i \in found : \A j \in found : i <= j

\* the stream of entry i as GetStream extracts it, and the file with no byte
\* but those of that stream
Extracted(i) ==
    [len  |-> SizeLow(msi.linearDirList[i].streamSize),
     runs |-> <<(<<msi.linearDirList[i].startingSectorLocation, 1>>)>>,
     unit |-> 512, mini |-> FALSE]
Inside(i) ==
    LET from == (msi.linearDirList[i].startingSectorLocation + 1) * 512
    IN  [file EXCEPT !.at = [o \in {a \in DOMAIN file.at : from <= a /\ a < from + Extracted(i).len}
                                |-> file.at[o]]]

\* the first property of the harness stream points behind the section or at
\* its last 3 bytes or fewer, and the second is in the property list
FirstSkipped ==
    /\ fin.list = "first" /\ fin.sectionOffset = 48 /\ fin.count >= 2 /\ fin.n >= 72
    /\ fin.entries[1][2] > fin.n - 48 - 4

\* C26: the metadata ParseSummaryInformation leaves are those it would leave
\* if the file held nothing but the bytes of the extracted stream of the
\* first entry whose raw name contains "SummaryInformation" (and are
\* untouched when there is no such entry); and when a property is skipped
\* for its value offset, they are what the properties after it make of them
C26_InsideStream ==
    pc = "LoadStringPool" =>
        /\ FirstSummary = 0 => msi.msiMeta = MetadataNew
        /\ FirstSummary # 0 =>
              /\ gs.result = Extracted(FirstSummary)
              /\ msi.msiMeta = SummaryOf(Inside(FirstSummary), msi.miniStream,
                                         Extracted(FirstSummary), MetadataNew)
        /\ FirstSkipped =>
              msi.msiMeta = Property(Inside(1), msi.miniStream, Extracted(1),
                                     [MetadataNew EXCEPT !.totalSize = fin.n], 48, 1)

\* a stream cut at 100 bytes: the first property points behind it and is
\* skipped, the second is a title that declares 100 chars and gets the 4
\* that are left
C26_Witness ==
    /\ pc = "LoadStringPool"
    /\ fin.n = 100 /\ fin.count = 1000
    /\ fin.entries = <<(<<12, 5000>>), <<2, 40>>>>
    /\ fin.values[2] = ValueLong
    /\ msi.msiMeta = [MetadataNew EXCEPT !.totalSize = 100, !.title = <<97, 98, 99, 100>>]

----------------------------------------------------------------------------
(* The properties ParseSummaryInformation dispatches *)

\* the type of the first value of the harness stream
FirstIsText == fin.values[1] = ValueLpstr
FirstIsTime == fin.values[1] = ValueTime
FirstIsInt == fin.values[1] = ValueInt

\* the seconds since 1970 of ValueTime, 2^56 * 0x01D0 units of 100 ns
SecondsOfValueTime == filetime_to_time_t(<<0, 0, 0, 0, 0, 0, 208, 1>>)

\* what the map of the spec makes of the first property
ByTheMap ==
    LET id   == fin.entries[1][1]
        base == [MetadataNew EXCEPT !.totalSize = fin.n]
    IN  IF FirstIsText
        THEN CASE id = 2 -> [base EXCEPT !.title = <<97, 98>>]
               [] id = 3 -> [base EXCEPT !.subject = <<97, 98>>]
               [] id = 4 -> [base EXCEPT !.author = <<97, 98>>]
               [] id = 5 -> [base EXCEPT !.keywords = <<97, 98>>]
               [] id = 6 -> [base EXCEPT !.comments = <<97, 98>>]
               [] id = 9 -> [base EXCEPT !.revisionNumber = <<97, 98>>]
               [] id = 18 -> [base EXCEPT !.creatingApp = <<97, 98>>]
               [] OTHER -> base
        ELSE IF FirstIsTime
        THEN CASE id = 12 -> [base EXCEPT !.createTime = SecondsOfValueTime]
               [] id = 13 -> [base EXCEPT !.lastSaveTime = SecondsOfValueTime]
               [] id = 14 -> [base EXCEPT !.lastPrintedTime = SecondsOfValueTime]
               [] OTHER -> base
        ELSE IF FirstIsInt
        THEN CASE id = 14 -> [base EXCEPT !.pageCount = 7]
               [] id = 15 -> [base EXCEPT !.wordCount = 7]
               [] id = 19 -> [base EXCEPT !.security = 7]
               [] OTHER -> base
        ELSE base

\* C27: a property changes the metadata field that the map assigns to its id
\* for its type (strings 2, 3, 4, 5, 6, 9, 18; times 12, 13, 14; integers 14,
\* 15, 19), and a property with another id or another type changes none
C27_FixedMap ==
    (pc = "LoadStringPool" /\ fin \in DispatchInputs) => msi.msiMeta = ByTheMap

----------------------------------------------------------------------------
(* Update called again on the same object and the same file *)

\* the caller keeps what the first call left and calls Update once more; the
\* locals of the first call are gone
Update_Again ==
    /\ pc = "done"
    /\ out.calls = 0
    /\ fout' = msi
    /\ out' = [out EXCEPT !.calls = 1]
    /\ pc' = "Update"
    /\ gs' = NoCall
    /\ lf' = LfNew
    /\ hist' = <<>>
    /\ UNCHANGED <<file, msi, fin>>

NextTwice == Next \/ Update_Again

SpecTwice == Init /\ [][NextTwice]_vars

\* C28: when Update has returned a second time, with the sector sizes it had
\* the first time, the decoder is in the state the first call left: the same
\* FAT, Mini-FAT, mini-stream, directory tree, string pool, table
\* definitions, table list and file list
C28_Repeatable ==
    (/\ pc = "done" /\ out.calls = 1
     /\ msi.sectorSize = fout.sectorSize /\ msi.miniSectorSize = fout.miniSectorSize) =>
        /\ msi.FAT = fout.FAT
        /\ msi.miniFAT = fout.miniFAT
        /\ msi.miniStream = fout.miniStream
        /\ msi.rootDir = fout.rootDir
        /\ msi.linearDirList = fout.linearDirList
        /\ msi.stringPool = fout.stringPool
        /\ msi.tableDefs = fout.tableDefs
        /\ msi.tables = fout.tables
        /\ msi.msiFiles = fout.msiFiles

----------------------------------------------------------------------------
(* Harness for the row counts: the table "T" with its stream "!T" on sector *)
(* 0 of a 512-byte-sector file, LoadTables, and then the call of            *)
(* ReadTableData the viewer makes for the table                             *)

MaxDeclared == 24

\* sizes the entry declares: up to MaxDeclared, more than the one sector of
\* the chain, more than the two sectors of the file
DeclaredSizes == 0..MaxDeclared \cup {600, 2000}

InitCount ==
    /\ fin \in [op : {"LoadTables"},
                 types : {<<MSICOL_INTEGER + MSICOL_INT2>>, <<MSICOL_INTEGER, 0>>},
                 declared : DeclaredSizes,
                 next : {ENDOFCHAIN, 1},
                 sectors : {0, 1, 2},
                 stream : BOOLEAN]
    /\ file = [size |-> (fin.sectors + 1) * 512, at |-> PutBytes(512, TableBytes(MaxTableBytes))]
    /\ msi = [MsiNew EXCEPT !.sectorSize = 512, !.miniSectorSize = 64,
                            !.FAT = VecFrom(128, <<fin.next, ENDOFCHAIN>>),
                            !.linearDirList =
                                IF fin.stream
                                THEN <<[DirEntryNew EXCEPT !.decodedName = TableStreamName(TableName),
                                                           !.streamSize = SizeOf(fin.declared)]>>
                                ELSE <<>>,
                            !.stringPool = TablePool,
                            !.tableDefs = TableDefs(fin.types, 2)]
    /\ gs = NoCall
    /\ lf = LfNew
    /\ out = OutNew
    /\ hist = <<>>
    /\ fout = <<>>
    /\ pc = "LoadTables"

\* ReadTableData(name) called on the decoded file
Table_Query ==
    /\ pc = "done"
    /\ ReadTableData_Call(msi.tableDefs, TableName, lf, "ReadTableData")
    /\ UNCHANGED <<file, msi, fin, fout, hist>>

NextCount == LoadTables \/ Table_Query \/ GetStream_Loop \/ Table_Read

SpecCount == InitCount /\ [][NextCount]_vars

\* C29: the table list has one entry for each table definition, and the
\* rowCount of a listed table is the number of rows ReadTableData returns
\* for it, 0 when it has no stream
C29_RowCount ==
    pc = "returned" =>
        /\ Len(msi.tables) = Cardinality(DOMAIN msi.tableDefs)
        /\ \A name \in DOMAIN msi.tableDefs : \E k \in 1..Len(msi.tables) : msi.tables[k].name = name
        /\ \A k \in 1..Len(msi.tables) :
              msi.tables[k].name = TableName => msi.tables[k].rowCount = Len(fout)

----------------------------------------------------------------------------
(* MSIFile::BeginIteration and PopulateItem *)

StreamsText == <<83, 116, 114, 101, 97, 109, 115>>
FilesText == <<70, 105, 108, 101, 115>>
TablesText == <<84, 97, 98, 108, 101, 115>>
FolderText == <<70, 111, 108, 100, 101, 114>>
StreamText == <<83, 116, 114, 101, 97, 109>>
TableText == <<84, 97, 98, 108, 101>>
RowsText == <<32, 114, 111, 119, 115>>
BytesText == <<32, 66, 121, 116, 101, 115>>

\* SizeToString for a value below 1024, where unitIndex stays 0:
\* snprintf(buffer, sizeof(buffer), "%llu %s", value, units[0])
SizeToString(value) == to_string(value) \o BytesText

\* the entry a pointer into the tree of root leads to
RECURSIVE EntryAt(_, _)
EntryAt(root, path) ==
    IF path = <<>> THEN root ELSE EntryAt(root.children[Head(path)], Tail(path))

\* the item a TreeViewItem becomes: the texts set, by column, the data and
\* whether it can be expanded
ItemOf(cols, data, expandable) == [cols |-> cols, data |-> data, expandable |-> expandable]
NoItem == ItemOf(<<>>, NullFolder, FALSE)

\* lines 687-722: a parent item is valid or not and carries a DirEntry*
BeginIteration(m, path, parent) ==
    LET reset == [m EXCEPT !.currentIterIndex = 0]
    IN  IF path = <<>>
        THEN [msi |-> [reset EXCEPT !.currentViewMode = "Root"], ret |-> TRUE]
        ELSE IF path = FilesText
        THEN [msi |-> [reset EXCEPT !.currentViewMode = "Files"], ret |-> TRUE]
        ELSE IF path = TablesText
        THEN [msi |-> [reset EXCEPT !.currentViewMode = "Tables"], ret |-> TRUE]
        ELSE IF path = StreamsText
        THEN [msi |-> [reset EXCEPT !.currentViewMode = "Streams",
                                    !.currentIterFolder = FolderPointer(<<>>)],
              ret |-> TRUE]
        ELSE IF parent.valid /\ ~parent.data.null
        THEN [msi |-> [reset EXCEPT !.currentViewMode = "Streams",
                                    !.currentIterFolder = parent.data],
              ret |-> TRUE]
        ELSE [msi |-> reset, ret |-> FALSE]

\* lines 724-814
PopulateItem(m) ==
    LET i     == m.currentIterIndex
        next  == [m EXCEPT !.currentIterIndex = i + 1]
        none  == [msi |-> m, ret |-> FALSE, item |-> NoItem]
        Virtual(text) ==
            [msi |-> next, ret |-> TRUE,
             item |-> ItemOf((0 :> text) @@ (1 :> FolderText), NullFolder, TRUE)]
    IN  CASE m.currentViewMode = "Root" ->
               IF i = 0 THEN Virtual(StreamsText)
               ELSE IF i = 1 THEN Virtual(FilesText)
               ELSE IF i = 2 THEN Virtual(TablesText)
               ELSE none
          [] m.currentViewMode = "Files" ->
               IF i < Len(m.msiFiles)
               THEN LET f == m.msiFiles[i + 1]
                    IN  [msi |-> next, ret |-> TRUE,
                         item |-> ItemOf((0 :> f.Name) @@ (1 :> f.Directory) @@ (2 :> f.Component)
                                            @@ (3 :> SizeToString(f.Size)) @@ (4 :> f.Version),
                                         NullFolder, FALSE)]
               ELSE none
          [] m.currentViewMode = "Tables" ->
               IF i < Len(m.tables)
               THEN LET tbl == m.tables[i + 1]
                    IN  [msi |-> next, ret |-> TRUE,
                         item |-> ItemOf((0 :> tbl.name) @@ (1 :> TableText) @@ (2 :> <<>>)
                                            @@ (3 :> to_string(tbl.rowCount) \o RowsText),
                                         NullFolder, FALSE)]
               ELSE none
          [] OTHER ->
               IF ~m.currentIterFolder.null
                  /\ i < Len(EntryAt(m.rootDir, m.currentIterFolder.path).children)
               THEN LET child == EntryAt(m.rootDir, m.currentIterFolder.path).children[i + 1]
                        entry == m.linearDirList[child.id + 1]
                        data  == FolderPointer(Append(m.currentIterFolder.path, i + 1))
                    IN  [msi |-> next, ret |-> TRUE,
                         item |-> IF entry.objectType \in {1, 5}
                                  THEN ItemOf((0 :> entry.decodedName) @@ (1 :> FolderText), data, TRUE)
                                  ELSE ItemOf((0 :> entry.decodedName) @@ (1 :> StreamText)
                                                 @@ (2 :> <<>>)
                                                 @@ (3 :> SizeToString(SizeLow(entry.streamSize))),
                                              data, FALSE)]
               ELSE none

----------------------------------------------------------------------------
(* Harness for the enumeration: a decoded file with up to two files, up to  *)
(* two tables and a tree of the root, the storage A with the stream C in    *)
(* it, and the stream B; the viewer calls BeginIteration and PopulateItem   *)
(* in any order, MaxCalls times in all.  fout keeps the last call, what it  *)
(* returned, the cursor before it, and the items yielded since the last     *)
(* BeginIteration that returned true.                                       *)

MaxCalls == 6

IterList(childId) ==
    <<[DirEntryNew EXCEPT !.objectType = 5, !.childId = childId,
                          !.leftSiblingId = NOSTREAM, !.rightSiblingId = NOSTREAM],
      [DirEntryNew EXCEPT !.id = 1, !.objectType = 1, !.childId = 3, !.decodedName = <<65>>,
                          !.leftSiblingId = NOSTREAM, !.rightSiblingId = 2],
      [DirEntryNew EXCEPT !.id = 2, !.objectType = 2, !.childId = NOSTREAM, !.decodedName = <<66>>,
                          !.leftSiblingId = NOSTREAM, !.rightSiblingId = NOSTREAM,
                          !.streamSize = SizeOf(5)],
      [DirEntryNew EXCEPT !.id = 3, !.objectType = 2, !.childId = NOSTREAM, !.decodedName = <<67>>,
                          !.leftSiblingId = NOSTREAM, !.rightSiblingId = NOSTREAM,
                          !.streamSize = SizeOf(7)]>>

IterFiles ==
    <<[Name |-> <<102>>, Directory |-> <<100>>, Component |-> <<99>>, Size |-> 5, Version |-> <<49>>],
      [Name |-> <<103>>, Directory |-> OrphanedText, Component |-> <<99>>, Size |-> 0, Version |-> <<>>]>>

IterTables == <<[name |-> <<84>>, rowCount |-> 3], [name |-> <<85>>, rowCount |-> 0]>>

\* the pointers items carry: nullptr and the entries of the tree
Pointers(root) ==
    {NullFolder} \cup {FolderPointer(p) : p \in {q \in {<<1>>, <<2>>, <<1, 1>>} :
                           /\ q[1] <= Len(root.children)
                           /\ Len(q) = 2 => q[2] <= Len(root.children[q[1]].children)}}

\* "", "Files", "Tables", "Streams", "Streams/A", "Files/f"
IterPaths == {<<>>, FilesText, TablesText, StreamsText, StreamsText \o <<47, 65>>, FilesText \o <<47, 102>>}

Cursor == [mode |-> msi.currentViewMode, folder |-> msi.currentIterFolder, index |-> msi.currentIterIndex]

InitIter ==
    /\ fin \in [op : {"BeginIteration"}, childId : {NOSTREAM, 1, 2}, files : 0..2, tables : 0..2]
    /\ file = [size |-> 0, at |-> NoEntries]
    /\ LET list == IterList(fin.childId)
       IN  msi = [MsiNew EXCEPT !.linearDirList = list,
                                !.rootDir = [list[1] EXCEPT !.children =
                                                BuildTree(list, fin.childId, {0}).children],
                                !.msiFiles = SubSeq(IterFiles, 1, fin.files),
                                !.tables = SubSeq(IterTables, 1, fin.tables)]
    /\ gs = NoCall
    /\ lf = LfNew
    /\ out = OutNew
    /\ hist = <<>>
    /\ fout = [call |-> "none", ret |-> FALSE, before |-> Cursor, started |-> FALSE,
               ended |-> FALSE, yielded |-> <<>>]
    /\ pc = "viewer"

Iter_Begin ==
    /\ pc = "viewer" /\ out.calls < MaxCalls
    /\ \E path \in IterPaths, valid \in BOOLEAN, data \in Pointers(msi.rootDir) :
          LET r == BeginIteration(msi, path, [valid |-> valid, data |-> data])
          IN  /\ msi' = r.msi
              /\ fout' = IF r.ret
                         THEN [call |-> "BeginIteration", ret |-> TRUE, before |-> Cursor,
                               started |-> TRUE, ended |-> FALSE, yielded |-> <<>>]
                         ELSE [fout EXCEPT !.call = "BeginIteration", !.ret = FALSE,
                                           !.before = Cursor]
    /\ out' = [out EXCEPT !.calls = @ + 1]
    /\ UNCHANGED <<file, pc, gs, lf, fin, hist>>

Iter_Populate ==
    /\ pc = "viewer" /\ out.calls < MaxCalls
    /\ LET r == PopulateItem(msi)
       IN  /\ msi' = r.msi
           /\ fout' = [fout EXCEPT !.call = "PopulateItem", !.ret = r.ret, !.before = Cursor,
                                   !.ended = @ \/ ~r.ret,
                                   !.yielded = IF r.ret THEN Append(@, r.item) ELSE @]
    /\ out' = [out EXCEPT !.calls = @ + 1]
    /\ UNCHANGED <<file, pc, gs, lf, fin, hist>>

NextIter == Iter_Begin \/ Iter_Populate

SpecIter == InitIter /\ [][NextIter]_vars

\* the names of the collection the cursor is on, in index order
Enumerated ==
    CASE msi.currentViewMode = "Root" -> <<StreamsText, FilesText, TablesText>>
      [] msi.currentViewMode = "Files" -> [j \in 1..Len(msi.msiFiles) |-> msi.msiFiles[j].Name]
      [] msi.currentViewMode = "Tables" -> [j \in 1..Len(msi.tables) |-> msi.tables[j].name]
      [] OTHER ->
           LET folder == EntryAt(msi.rootDir, msi.currentIterFolder.path)
           IN  [j \in 1..Len(folder.children) |->
                   msi.linearDirList[folder.children[j].id + 1].decodedName]

\* the PopulateItem calls since the last BeginIteration that returned true
\* have yielded the first items of the collection in index order, all of
\* them once a call has returned false
YieldedInOrder ==
    fout.started =>
        /\ Len(fout.yielded) <= Len(Enumerated)
        /\ \A j \in 1..Len(fout.yielded) : fout.yielded[j].cols[0] = Enumerated[j]
        /\ fout.ended => Len(fout.yielded) = Len(Enumerated)

\* a BeginIteration that has just returned false has left the cursor alone
FailedBeginIdle ==
    (fout.call = "BeginIteration" /\ ~fout.ret) => Cursor = fout.before

\* C30: after a BeginIteration that returned true, PopulateItem returns true
\* once for each item of the collection chosen (the three virtual folders,
\* the files, the tables, the children of the folder), in index order, and
\* false from then on; and a BeginIteration that returns false leaves view
\* mode, folder and index as they were
C30_Enumeration == YieldedInOrder /\ FailedBeginIdle

====
